---- MODULE Spec2Model ----
(***************************************************************************)
(* Model of the task-api core: the in-memory repository                    *)
(* (InMemoryTaskRepository), the task service (taskService) and the        *)
(* error kinds of pkg/errors.                                              *)
(*                                                                         *)
(* Go pointers are modelled by a heap: heap[a] is the Task struct at       *)
(* address a, the repository map holds addresses (map[string]*Task), and   *)
(* `held` is the set of addresses a caller of the API holds.  A struct     *)
(* copy (copy := *task; &copy) allocates a new address; a struct that      *)
(* neither the map nor a caller refers to is garbage and leaves the heap.  *)
(***************************************************************************)
EXTENDS Integers, Sequences, FiniteSets, TLC

(* ------------------------------ bounds -------------------------------- *)
\* uuid.NewString() calls in one behaviour
MaxCreate == 2
\* Task structs alive at the same time
MaxObj == 3
\* direct field assignments by a caller in one behaviour
MaxMut == 1
\* readings of the clock: time.Now() ranges over 1..MaxNow
MaxNow == 2
\* goroutines that call the repository at the same time
NumProcs == 2
\* tasks in the store when ListTasks is looked at on its own
MaxList == 3
\* service calls that one goroutine makes
MaxCalls == 1
\* the largest page and page size of a request, where not every int is drawn
MaxPage == 3
\* bits of the machine integer int (64 in the build; the wrap-around is the
\* same at any width)
WordBits == 6

(* ----------------------------- domain --------------------------------- *)
StatusPending == "PENDING"
StatusInProgress == "IN_PROGRESS"
StatusDone == "DONE"

ErrTitleRequired == "title is required"
ErrDueDateRequired == "due_date is required"
ErrDueDatePast == "due_date must be in the future"
ErrStatusInvalid == "invalid status"

ErrTypeValidation == "validation"
ErrTypeNotFound == "not_found"

\* a nil error
NilErr == [Type |-> "nil", Message |-> ""]

NewValidationError(msg) == [Type |-> ErrTypeValidation, Message |-> msg]

\* a faulty constructor that gives the not-found error the validation kind
NewNotFoundErrorMistyped(msg) == [Type |-> ErrTypeValidation, Message |-> msg]

NewNotFoundError(msg) == [Type |-> ErrTypeNotFound, Message |-> msg]

\* errors.As fails on a nil error, so both predicates are false for it
IsValidation(err) == err # NilErr /\ err.Type = ErrTypeValidation

IsNotFound(err) == err # NilErr /\ err.Type = ErrTypeNotFound

isValidStatus(s) == s \in {StatusPending, StatusInProgress, StatusDone}

(* An identifier is a string: <<>> is the empty string, <<n>> the n-th     *)
(* string drawn from uuid.NewString().  A time is a natural number: 0 is  *)
(* the zero time.Time, the clock reads 1 or more.                          *)
EmptyID == << >>

IsZero(t) == t = 0

After(t, u) == t > u

Before(t, u) == t < u

\* an optional (pointer) input field: << >> is nil, <<v>> points to v
Absent == << >>

Some(v) == <<v>>

\* the empty map: make(map[string]*domain.Task)
EmptyMap == [k \in {} |-> 0]

(* ------------------------------ state --------------------------------- *)
VARIABLES
    heap,      \* function from the addresses in use to Task structs
    tasks,     \* r.tasks: function from identifier to address
    held,      \* addresses that callers of the repository keep
    copies,    \* history: the pairs <<address, identifier>> of the structs that
               \* GetByID or ListAll returned for the record under the identifier
    uuids,     \* number of identifiers drawn from uuid.NewString()
    now,       \* the clock
    muts,      \* number of direct field assignments done by callers
    last,      \* the last operation: its name, identifier, error and results
    assigned,  \* history: the identifiers assigned by Create, in call order
    hist,      \* history: per identifier, the struct passed to Create and the
               \* last write to its record
    snap,      \* history: per identifier written through the repository alone,
               \* the values given to Create and to the last Update
    pin,       \* the request drawn for a single call, or NoInput
    mu,        \* r.mu, the sync.RWMutex of the repository
    procs,     \* per goroutine: the repository call it is in, its position in
               \* the code of the call and its local variables
    lin,       \* history: the store and the results that the calls give when
               \* each takes effect at once, at the moment it gets the lock
    calls      \* per goroutine: the service call it is in, the local variables
               \* of the call and, once it has returned, its result

vars == <<heap, tasks, held, copies, uuids, now, muts, last, assigned, hist, snap, pin,
          mu, procs, lin, calls>>

Addrs == 1..MaxObj

Fields == {"Title", "Description", "Status", "DueDate"}

\* the fields of a struct other than its identifier
Payload(t) == [f \in Fields |-> t[f]]

Range(f) == {f[x] : x \in DOMAIN f}

Lowest(S) == CHOOSE x \in S : \A y \in S : x <= y

\* garbage collection: the structs of h that the map ts or a pointer in hd refers to
Live(h, ts, hd) == [a \in DOMAIN h \cap (Range(ts) \cup hd) |-> h[a]]

\* the heap when an operation starts: the results of the operation before it
\* that no caller kept are garbage
Heap0 == Live(heap, tasks, held)

\* the addresses of n new structs: the n lowest addresses not in use
RECURSIVE FreshFrom(_, _)
FreshFrom(S, n) ==
    IF n = 0 THEN << >>
    ELSE <<Lowest(S)>> \o FreshFrom(S \ {Lowest(S)}, n - 1)

Fresh(n) == FreshFrom(Addrs \ DOMAIN Heap0, n)

CanAlloc(n) == Cardinality(Addrs \ DOMAIN Heap0) >= n

NoInput == [fn |-> "none"]

\* the goroutines
Procs == 1..NumProcs

\* the zero sync.RWMutex: w is the goroutine that is in Lock or holds the write
\* lock (0: none), locked tells that it holds it, r is the set of goroutines
\* that hold the read lock
RWMutexZero == [w |-> 0, locked |-> FALSE, r |-> {}]

\* the result of a call that has not produced one
NoRes == [err |-> NilErr, vals |-> {}]

\* a goroutine that is in no repository call
Idle == [pc |-> "idle", op |-> "none", id |-> EmptyID, arg |-> << >>, ptr |-> 0,
         res |-> NoRes]

\* a goroutine that has made no service call: st is the position in the code of
\* the method, n the number of calls made, task the struct that the local
\* pointer task refers to, err and ret the error and the struct returned
NoCall == [op |-> "none", id |-> EmptyID, in |-> << >>, st |-> "idle", n |-> 0,
           task |-> << >>, err |-> NilErr, ret |-> << >>]

\* no goroutine has called the repository
ConcInit ==
    /\ mu = RWMutexZero
    /\ procs = [p \in Procs |-> Idle]
    /\ lin = [store |-> EmptyMap, n |-> 0, exp |-> [p \in Procs |-> NoRes]]
    /\ calls = [p \in Procs |-> NoCall]

\* the record of a call: in is the request of a service call, ret the pointers
\* returned; for ListTasks, out is the sequence of the structs behind the
\* pointers returned, all (history) the sequence that ListAll gave and mid
\* (history) the sequence after the filter and the sort
NoOp == [op |-> "init", id |-> EmptyID, err |-> NilErr, ret |-> << >>,
         in |-> NoInput, out |-> << >>, all |-> << >>, mid |-> << >>]

Init ==
    /\ heap = EmptyMap
    /\ tasks = EmptyMap
    /\ held = {}
    /\ copies = {}
    /\ uuids = 0
    /\ now = 1
    /\ muts = 0
    /\ last = NoOp
    /\ assigned = << >>
    /\ hist = EmptyMap
    /\ snap = EmptyMap
    /\ ConcInit
    /\ pin = NoInput

\* history: the identifiers whose record is the struct at address a, so far
\* written by Create alone, become written through the shared pointer
Touch(h, a) ==
    [k \in DOMAIN h |->
        IF k \in DOMAIN tasks /\ tasks[k] = a /\ h[k].w = "Create"
        THEN [h[k] EXCEPT !.w = "Alias"] ELSE h[k]]

\* a function without the key k
Without(f, k) == [x \in DOMAIN f \ {k} |-> f[x]]

\* history: the struct passed to Create is forgotten once it is garbage
Forget(h, hp) ==
    [k \in DOMAIN h |->
        IF h[k].obj \in DOMAIN hp THEN h[k] ELSE [h[k] EXCEPT !.obj = 0]]

\* the end of an operation: h is the heap it built, ts the map, hd the pointers
\* the callers keep, l its record, hs the history
Finish(h, ts, hd, l, hs) ==
    /\ heap' = Live(h, ts, hd \cup Range(l.ret))
    /\ tasks' = ts
    /\ held' = hd
    /\ last' = l
    /\ hist' = Forget(hs, heap')

(* --------------------------- the repository ---------------------------- *)
\* uuid.NewString(): a string that no earlier call returned
NewString == <<uuids + 1>>

\* a faulty Create that keeps the identifier the caller put in the task
CreateAssignedIDKept(t) == IF t.ID # EmptyID THEN t.ID ELSE NewString

\* the identifier Create gives the task t: id := uuid.NewString(); task.ID = id
CreateAssignedID(t) == NewString

\* a faulty GetByID whose copy loses the description
GetByIDCopyShort(t) == [t EXCEPT !.Description = ""]

\* copy := *task, the struct copy made by GetByID
GetByIDCopy(t) == t

\* a faulty GetByID that returns the stored pointer
GetByIDReturnedStored(stored, copy) == stored

\* return &copy: GetByID returns the address of its copy, not the stored pointer
GetByIDReturned(stored, copy) == copy

\* a faulty Update whose copy loses the due date
UpdateCopyNoDueDate(t) == [t EXCEPT !.DueDate = 0]

\* copy := *task, the struct copy made by Update
UpdateCopy(t) == t

\* a faulty Update that files the caller's pointer
UpdateStoredPointer(task, copy) == task

\* r.tasks[task.ID] = &copy: Update files the address of its copy, not the
\* caller's pointer
UpdateStored(task, copy) == copy

\* copy := *t, the struct copy made by ListAll for each record
ListAllCopy(t) == t

\* if _, ok := r.tasks[id]; !ok { return NewNotFoundError(...) }
Lookup(ts, id) ==
    IF id \in DOMAIN ts THEN NilErr ELSE NewNotFoundError("task not found")

\* a Create that files a copy of the task when there is room for one
RepoCreateCopying(h, ts, a) ==
    LET id == CreateAssignedID(h[a])
        free == Addrs \ DOMAIN h
        c == IF free = {} THEN a ELSE Lowest(free)
    IN [id |-> id,
        heap |-> (c :> [h[a] EXCEPT !.ID = id]) @@ [h EXCEPT ![a].ID = id],
        tasks |-> (id :> c) @@ ts]

\* Create on heap h and map ts with the task at address a: the new heap and map
\* a faulty Create that files the task and does not write the identifier into it
RepoCreateUnassigned(h, ts, a) ==
    LET id == CreateAssignedID(h[a])
    IN [id |-> id,
        heap |-> h,
        tasks |-> (id :> a) @@ ts]

RepoCreate(h, ts, a) ==
    LET id == CreateAssignedID(h[a])
    IN [id |-> id,
        heap |-> [h EXCEPT ![a].ID = id],
        tasks |-> (id :> a) @@ ts]

\* Update on heap h and map ts with the task at address a, copied to address c
RepoUpdate(h, ts, a, c) ==
    LET id == h[a].ID
    IN IF Lookup(ts, id) # NilErr
       THEN [err |-> Lookup(ts, id), heap |-> h, tasks |-> ts]
       ELSE [err |-> NilErr,
             heap |-> (c :> UpdateCopy(h[a])) @@ h,
             tasks |-> [ts EXCEPT ![id] = UpdateStored(a, c)]]

\* Delete on map ts
RepoDelete(ts, id) ==
    IF Lookup(ts, id) # NilErr
    THEN [err |-> Lookup(ts, id), tasks |-> ts]
    ELSE [err |-> NilErr, tasks |-> [k \in DOMAIN ts \ {id} |-> ts[k]]]

\* func (r *InMemoryTaskRepository) Create(task *domain.Task) error
Create(a) ==
    /\ a \in held
    /\ uuids < MaxCreate
    /\ LET r == RepoCreate(Heap0, tasks, a)
       IN /\ uuids' = uuids + 1
          /\ assigned' = Append(assigned, r.id)
          /\ Finish(r.heap, r.tasks, held,
                    [NoOp EXCEPT !.op = "Create", !.id = r.id, !.ret = <<a>>],
                    (r.id :> [obj |-> a, w |-> "Create"]) @@ Touch(hist, a))
          /\ snap' = (r.id :> [given |-> heap[a], upd |-> r.heap[a]]) @@ snap
    /\ UNCHANGED <<mu, procs, lin, calls, copies, now, muts, pin>>

\* func (r *InMemoryTaskRepository) GetByID(id string) (*domain.Task, error)
GetByID(id) ==
    /\ IF Lookup(tasks, id) # NilErr
       THEN /\ Finish(Heap0, tasks, held,
                   [NoOp EXCEPT !.op = "GetByID", !.id = id, !.err = Lookup(tasks, id)],
                   hist)
            /\ copies' = copies
       ELSE /\ CanAlloc(1)
            /\ LET c == Fresh(1)[1]
                   r == GetByIDReturned(tasks[id], c)
               IN /\ Finish((c :> GetByIDCopy(heap[tasks[id]])) @@ Heap0, tasks,
                         held \cup {r},
                         [NoOp EXCEPT !.op = "GetByID", !.id = id, !.ret = <<r>>],
                         hist)
                  /\ copies' = copies \cup {<<r, id>>}
    /\ UNCHANGED <<mu, procs, lin, calls, uuids, now, muts, assigned, snap, pin>>

\* func (r *InMemoryTaskRepository) Update(task *domain.Task) error
Update(a) ==
    /\ a \in held
    /\ Lookup(tasks, heap[a].ID) = NilErr => CanAlloc(1)
    /\ LET id == heap[a].ID
           r == RepoUpdate(Heap0, tasks, a, Fresh(1)[1])
       IN /\ Finish(r.heap, r.tasks, held,
                 [NoOp EXCEPT !.op = "Update", !.id = id, !.err = r.err, !.ret = <<a>>],
                 IF r.err = NilErr THEN [hist EXCEPT ![id].w = "Update"] ELSE hist)
          /\ snap' = IF r.err = NilErr /\ id \in DOMAIN snap
                     THEN [snap EXCEPT ![id].upd = heap[a]] ELSE snap
    /\ UNCHANGED <<mu, procs, lin, calls, copies, uuids, now, muts, assigned, pin>>

\* func (r *InMemoryTaskRepository) Delete(id string) error
Delete(id) ==
    /\ LET r == RepoDelete(tasks, id)
       IN Finish(Heap0, r.tasks, held,
                 [NoOp EXCEPT !.op = "Delete", !.id = id, !.err = r.err],
                 IF r.err = NilErr THEN [hist EXCEPT ![id].w = "Delete"] ELSE hist)
    /\ UNCHANGED <<mu, procs, lin, calls, copies, uuids, now, muts, assigned, snap, pin>>

\* the orders in which a range over the map r.tasks can yield its keys
KeyOrders == {s \in [1..Cardinality(DOMAIN tasks) -> DOMAIN tasks] :
                \A i, j \in DOMAIN s : i # j => s[i] # s[j]}

\* ListAll on the heap: the copies, at the addresses out, in the order the map
\* yields its keys
RepoListAll(order, out) ==
    [a \in Range(out) |->
        ListAllCopy(heap[tasks[order[CHOOSE i \in DOMAIN out : out[i] = a]]])]
    @@ Heap0

\* func (r *InMemoryTaskRepository) ListAll() ([]*domain.Task, error)
ListAll(order) ==
    /\ CanAlloc(Len(order))
    /\ LET out == Fresh(Len(order))
       IN /\ Finish(RepoListAll(order, out), tasks, held \cup Range(out),
                 [NoOp EXCEPT !.op = "ListAll", !.ret = out], hist)
          /\ copies' = copies \cup {<<out[i], order[i]>> : i \in DOMAIN out}
    /\ UNCHANGED <<mu, procs, lin, calls, uuids, now, muts, assigned, snap, pin>>

(* ----------------------- callers of the repository --------------------- *)
\* the task a caller of the repository builds
Templates ==
    { [Title |-> "a", Description |-> "d", Status |-> StatusPending, DueDate |-> 2] }

\* the identifiers a caller can name
IDs == {EmptyID} \cup {<<n>> : n \in 1..MaxCreate}

\* the values a caller can assign to a field
Values(f) ==
    CASE f = "ID" -> IDs
      [] f = "Title" -> {"a", "b"}
      [] f = "Description" -> {"", "d"}
      [] f = "Status" -> {StatusPending, StatusDone}
      [] f = "DueDate" -> {2, 3}

\* the caller builds a task: task := &domain.Task{...}
CallerNew(tpl) ==
    /\ CanAlloc(1)
    /\ LET a == Fresh(1)[1]
       IN Finish((a :> ([ID |-> EmptyID] @@ tpl)) @@ Heap0, tasks, held \cup {a},
                 [NoOp EXCEPT !.op = "New", !.ret = <<a>>], hist)
    /\ UNCHANGED <<mu, procs, lin, calls, copies, uuids, now, muts, assigned, snap, pin>>

\* the caller assigns a field of a task it holds: task.Title = "Modified"
CallerMutate(a, f, v) ==
    /\ a \in held
    /\ muts < MaxMut
    /\ heap[a][f] # v
    /\ muts' = muts + 1
    /\ Finish([Heap0 EXCEPT ![a][f] = v], tasks, held,
              [NoOp EXCEPT !.op = "Mutate", !.ret = <<a>>], Touch(hist, a))
    /\ UNCHANGED <<mu, procs, lin, calls, copies, uuids, now, assigned, snap, pin>>

\* the clock moves on
Tick ==
    /\ now < MaxNow
    /\ now' = now + 1
    /\ UNCHANGED <<mu, procs, lin, calls, heap, tasks, held, copies, uuids, muts, last, assigned, hist, snap, pin>>

(* ----------------------------- the service ----------------------------- *)
\* a faulty validation that takes a due date equal to the clock
CreateTaskValidateBefore(in, clock) ==
    IF in.Title = "" THEN NewValidationError(ErrTitleRequired)
    ELSE IF IsZero(in.DueDate) THEN NewValidationError(ErrDueDateRequired)
    ELSE IF Before(in.DueDate, clock) THEN NewValidationError(ErrDueDatePast)
    ELSE IF in.Status # Absent /\ ~isValidStatus(in.Status[1])
         THEN NewValidationError(ErrStatusInvalid)
    ELSE NilErr

\* CreateTask, the validation: the first failure, or nil
CreateTaskValidate(in, clock) ==
    IF in.Title = "" THEN NewValidationError(ErrTitleRequired)
    ELSE IF IsZero(in.DueDate) THEN NewValidationError(ErrDueDateRequired)
    ELSE IF ~After(in.DueDate, clock) THEN NewValidationError(ErrDueDatePast)
    ELSE IF in.Status # Absent /\ ~isValidStatus(in.Status[1])
         THEN NewValidationError(ErrStatusInvalid)
    ELSE NilErr

\* a faulty entity that drops the status of the request
CreateTaskEntityPending(in) ==
    [ID |-> EmptyID, Title |-> in.Title, Description |-> in.Description,
     Status |-> StatusPending, DueDate |-> in.DueDate]

\* CreateTask, the entity: task := &Task{...} with the default status
CreateTaskEntity(in) ==
    [ID |-> EmptyID, Title |-> in.Title, Description |-> in.Description,
     Status |-> IF in.Status # Absent THEN in.Status[1] ELSE StatusPending,
     DueDate |-> in.DueDate]

\* UpdateTask, title: the error or the task after this step
MergeTitle(task, in) ==
    IF in.Title = Absent THEN [err |-> NilErr, task |-> task]
    ELSE IF in.Title[1] = ""
         THEN [err |-> NewValidationError(ErrTitleRequired), task |-> task]
    ELSE [err |-> NilErr, task |-> [task EXCEPT !.Title = in.Title[1]]]

\* a faulty description step that skips an empty description
MergeDescriptionNonEmpty(task, in) ==
    IF in.Description = Absent \/ in.Description = Some("")
    THEN [err |-> NilErr, task |-> task]
    ELSE [err |-> NilErr, task |-> [task EXCEPT !.Description = in.Description[1]]]

\* UpdateTask, description
MergeDescription(task, in) ==
    IF in.Description = Absent THEN [err |-> NilErr, task |-> task]
    ELSE [err |-> NilErr, task |-> [task EXCEPT !.Description = in.Description[1]]]

\* a faulty status step that takes any status
MergeStatusUnchecked(task, in) ==
    IF in.Status = Absent THEN [err |-> NilErr, task |-> task]
    ELSE [err |-> NilErr, task |-> [task EXCEPT !.Status = in.Status[1]]]

\* UpdateTask, status
MergeStatus(task, in) ==
    IF in.Status = Absent THEN [err |-> NilErr, task |-> task]
    ELSE IF ~isValidStatus(in.Status[1])
         THEN [err |-> NewValidationError(ErrStatusInvalid), task |-> task]
    ELSE [err |-> NilErr, task |-> [task EXCEPT !.Status = in.Status[1]]]

\* UpdateTask, due date
MergeDueDate(task, in, clock) ==
    IF in.DueDate = Absent THEN [err |-> NilErr, task |-> task]
    ELSE IF IsZero(in.DueDate[1])
         THEN [err |-> NewValidationError(ErrDueDateRequired), task |-> task]
    ELSE IF ~After(in.DueDate[1], clock)
         THEN [err |-> NewValidationError(ErrDueDatePast), task |-> task]
    ELSE [err |-> NilErr, task |-> [task EXCEPT !.DueDate = in.DueDate[1]]]

\* a faulty merge that looks at the due date before the status
UpdateTaskMergeDueFirst(task, in, clock) ==
    LET t1 == MergeTitle(task, in)
        t2 == MergeDescription(t1.task, in)
        t3 == MergeDueDate(t2.task, in, clock)
        t4 == MergeStatus(t3.task, in)
    IN IF t1.err # NilErr THEN t1
       ELSE IF t3.err # NilErr THEN t3
       ELSE t4

\* UpdateTask, the steps between GetByID and Update, in the order of the code:
\* the first failure and the task as it is then, or nil and the merged task
UpdateTaskMerge(task, in, clock) ==
    LET t1 == MergeTitle(task, in)
        t2 == MergeDescription(t1.task, in)
        t3 == MergeStatus(t2.task, in)
        t4 == MergeDueDate(t3.task, in, clock)
    IN IF t1.err # NilErr THEN t1
       ELSE IF t3.err # NilErr THEN t3
       ELSE t4

\* func (s *taskService) CreateTask(input CreateTaskInput) (*Task, error)
CreateTask(in) ==
    LET err == CreateTaskValidate(in, now)
    IN IF err # NilErr
       THEN /\ Finish(Heap0, tasks, held,
                      [NoOp EXCEPT !.op = "CreateTask", !.err = err, !.in = in], hist)
            /\ UNCHANGED <<mu, procs, lin, calls, copies, uuids, now, muts, assigned, snap, pin>>
       ELSE /\ CanAlloc(1)
            /\ uuids < MaxCreate
            /\ LET a == Fresh(1)[1]
                   r == RepoCreate((a :> CreateTaskEntity(in)) @@ Heap0, tasks, a)
               IN /\ uuids' = uuids + 1
                  /\ assigned' = Append(assigned, r.id)
                  /\ Finish(r.heap, r.tasks, held,
                            [NoOp EXCEPT !.op = "CreateTask", !.id = r.id, !.ret = <<a>>,
                                         !.in = in],
                            (r.id :> [obj |-> a, w |-> "Create"]) @@ hist)
            /\ UNCHANGED <<mu, procs, lin, calls, copies, now, muts, snap, pin>>

\* func (s *taskService) GetTask(id string) (*Task, error)
GetTask(id) ==
    /\ IF Lookup(tasks, id) # NilErr
       THEN Finish(Heap0, tasks, held,
                   [NoOp EXCEPT !.op = "GetTask", !.id = id, !.err = Lookup(tasks, id)],
                   hist)
       ELSE /\ CanAlloc(1)
            /\ LET c == Fresh(1)[1]
                   r == GetByIDReturned(tasks[id], c)
               IN Finish((c :> GetByIDCopy(heap[tasks[id]])) @@ Heap0, tasks, held,
                         [NoOp EXCEPT !.op = "GetTask", !.id = id, !.ret = <<r>>],
                         hist)
    /\ UNCHANGED <<mu, procs, lin, calls, copies, uuids, now, muts, assigned, snap, pin>>

\* func (s *taskService) UpdateTask(id string, input UpdateTaskInput) (*Task, error)
UpdateTask(id, in) ==
    /\ IF Lookup(tasks, id) # NilErr
       THEN /\ Finish(Heap0, tasks, held,
                   [NoOp EXCEPT !.op = "UpdateTask", !.id = id, !.err = Lookup(tasks, id),
                                !.in = in],
                   hist)
            /\ snap' = snap
       ELSE /\ CanAlloc(2)
            /\ LET c == Fresh(2)[1]
                   a == GetByIDReturned(tasks[id], c)
                   h1 == (c :> GetByIDCopy(heap[tasks[id]])) @@ Heap0
                   m == UpdateTaskMerge(h1[a], in, now)
                   h2 == [h1 EXCEPT ![a] = m.task]
                   r == RepoUpdate(h2, tasks, a, Fresh(2)[2])
               IN IF m.err # NilErr
                  THEN /\ Finish(h2, tasks, held,
                              [NoOp EXCEPT !.op = "UpdateTask", !.id = id, !.err = m.err,
                                           !.in = in],
                              hist)
                       /\ snap' = snap
                  ELSE /\ Finish(r.heap, r.tasks, held,
                              [NoOp EXCEPT !.op = "UpdateTask", !.id = id, !.err = r.err, !.in = in,
                                           !.ret = IF r.err = NilErr THEN <<a>> ELSE << >>],
                              IF r.err = NilErr
                              THEN [hist EXCEPT ![h2[a].ID].w = "Update"] ELSE hist)
                       /\ snap' = IF r.err = NilErr THEN Without(snap, h2[a].ID)
                                  ELSE snap
    /\ UNCHANGED <<mu, procs, lin, calls, copies, uuids, now, muts, assigned, pin>>

\* func (s *taskService) DeleteTask(id string) error
DeleteTask(id) ==
    /\ LET r == RepoDelete(tasks, id)
       IN Finish(Heap0, r.tasks, held,
                 [NoOp EXCEPT !.op = "DeleteTask", !.id = id, !.err = r.err],
                 IF r.err = NilErr THEN [hist EXCEPT ![id].w = "Delete"] ELSE hist)
    /\ UNCHANGED <<mu, procs, lin, calls, copies, uuids, now, muts, assigned, snap, pin>>

(* ------------------------------ ListTasks ------------------------------ *)
\* the machine integers: int of WordBits bits, two's complement
MinInt == -(2 ^ (WordBits - 1))

MaxInt == (2 ^ (WordBits - 1)) - 1

\* the value an int holds after an operation whose exact result is x
Wrap(x) == ((x - MinInt) % (2 ^ WordBits)) + MinInt

\* if page <= 0 { page = 1 }
DefaultPage == 1

\* if size <= 0 { size = 10 }
DefaultPageSize == 10

\* a run-time panic (slice bounds out of range): the call returns nothing
PanicErr == [Type |-> "panic", Message |-> "slice bounds out of range"]

\* a faulty filter that lets every task through when the status is not one of
\* the three
FilterByStatusKnown(ts, status) ==
    IF status = Absent \/ ~isValidStatus(status[1]) THEN ts
    ELSE SelectSeq(ts, LAMBDA t : t.Status = status[1])

\* ListTasks, the filter: the tasks whose status is *filter.Status, in order
FilterByStatus(ts, status) ==
    IF status = Absent THEN ts
    ELSE SelectSeq(ts, LAMBDA t : t.Status = status[1])

\* the rearrangements of a sequence
Perms(ts) ==
    {[i \in DOMAIN ts |-> ts[f[i]]] :
        f \in {g \in [DOMAIN ts -> DOMAIN ts] : \A i, j \in DOMAIN ts : i # j => g[i] # g[j]}}

\* a faulty sort that leaves the slice as it is
SortSliceNone(ts) == {ts}

\* a faulty sort that keeps one task of each due date
SortSliceDedup(ts) ==
    {SelectSeq(s, LAMBDA t : \A i \in DOMAIN s : s[i].DueDate = t.DueDate => s[i] = t) :
        s \in {u \in Perms(ts) :
                 \A i, j \in DOMAIN u : i < j => ~Before(u[j].DueDate, u[i].DueDate)}}

\* sort.Slice(tasks, less) with less(i, j) = tasks[i].DueDate.Before(tasks[j].DueDate):
\* the slice rearranged so that no element is less than one before it; sort.Slice
\* does not promise the order of elements that are not less than one another
SortSlice(ts) ==
    {s \in Perms(ts) : \A i, j \in DOMAIN s : i < j => ~Before(s[j].DueDate, s[i].DueDate)}

\* a faulty pagination whose window starts at page * size
PaginateFromPage(ts, page, size) ==
    LET start == Wrap(page * size)
        end0 == Wrap(start + size)
        end == IF end0 > Len(ts) THEN Len(ts) ELSE end0
    IN IF start >= Len(ts) THEN [err |-> NilErr, out |-> << >>]
       ELSE IF 0 <= start /\ start <= end
            THEN [err |-> NilErr, out |-> SubSeq(ts, start + 1, end)]
       ELSE [err |-> PanicErr, out |-> << >>]

\* ListTasks, the pagination: start := (page - 1) * size; the empty slice if
\* start >= len(tasks); end := start + size, cut to len(tasks); tasks[start:end],
\* which panics unless 0 <= start <= end
Paginate(ts, page, size) ==
    LET start == Wrap(Wrap(page - 1) * size)
        end0 == Wrap(start + size)
        end == IF end0 > Len(ts) THEN Len(ts) ELSE end0
    IN IF start >= Len(ts) THEN [err |-> NilErr, out |-> << >>]
       ELSE IF 0 <= start /\ start <= end
            THEN [err |-> NilErr, out |-> SubSeq(ts, start + 1, end)]
       ELSE [err |-> PanicErr, out |-> << >>]

\* ListTasks on the slice that ListAll returned: the results it can give, each
\* with the sequence the pagination was applied to
ListTasksOutcomes(all, filter) ==
    LET page == IF filter.Page <= 0 THEN DefaultPage ELSE filter.Page
        size == IF filter.PageSize <= 0 THEN DefaultPageSize ELSE filter.PageSize
    IN {[mid |-> s, res |-> Paginate(s, page, size)] :
            s \in SortSlice(FilterByStatus(all, filter.Status))}

\* func (s *taskService) ListTasks(filter TaskFilter) ([]*Task, error)
ListTasks(filter, order) ==
    /\ LET all == [i \in DOMAIN order |-> ListAllCopy(heap[tasks[order[i]]])]
       IN \E r \in ListTasksOutcomes(all, filter) :
             Finish(Heap0, tasks, held,
                    [NoOp EXCEPT !.op = "ListTasks", !.in = filter, !.err = r.res.err,
                                 !.out = r.res.out, !.all = all, !.mid = r.mid],
                    hist)
    /\ UNCHANGED <<copies, uuids, now, muts, assigned, snap, pin, mu, procs, lin, calls>>

(* ------------------------ callers of the service ----------------------- *)
\* a status that is not one of the three
BadStatus == "BOGUS"

\* every CreateTaskInput over the small value sets
CreateInputs ==
    [Title : {"", "a", "b"}, Description : {"", "d"},
     Status : {Absent, Some(StatusPending), Some(StatusInProgress), Some(StatusDone),
               Some(BadStatus)},
     DueDate : 0..(MaxNow + 1)]

\* every UpdateTaskInput over the small value sets
UpdateInputs ==
    [Title : {Absent, Some(""), Some("a"), Some("b")},
     Description : {Absent, Some(""), Some("d")},
     Status : {Absent, Some(StatusPending), Some(StatusInProgress), Some(StatusDone),
               Some(BadStatus)},
     DueDate : {Absent} \cup {Some(d) : d \in 0..(MaxNow + 1)}]

NoUpdate == [Title |-> Absent, Description |-> Absent, Status |-> Absent,
             DueDate |-> Absent]

\* the requests sent to a running service: two that are valid at any time, one
\* that is valid while the clock reads 1, and one for each failure
SvcCreateInputs ==
    { [Title |-> "a", Description |-> "", Status |-> Absent, DueDate |-> MaxNow + 1],
      [Title |-> "b", Description |-> "d", Status |-> Some(StatusDone),
       DueDate |-> MaxNow + 1],
      [Title |-> "b", Description |-> "", Status |-> Some(StatusInProgress),
       DueDate |-> 2],
      [Title |-> "", Description |-> "d", Status |-> Some(BadStatus), DueDate |-> 0],
      [Title |-> "a", Description |-> "d", Status |-> Some(BadStatus), DueDate |-> 0],
      [Title |-> "a", Description |-> "d", Status |-> Some(BadStatus),
       DueDate |-> MaxNow + 1] }

SvcUpdateInputs ==
    { [NoUpdate EXCEPT !.Title = Some("b")],
      [NoUpdate EXCEPT !.Status = Some(StatusInProgress)],
      [NoUpdate EXCEPT !.Description = Some("")],
      [NoUpdate EXCEPT !.DueDate = Some(2)],
      [NoUpdate EXCEPT !.Title = Some("a"), !.Description = Some("d"),
                       !.Status = Some(StatusDone), !.DueDate = Some(MaxNow + 1)],
      [NoUpdate EXCEPT !.Title = Some(""), !.Status = Some(BadStatus)],
      [NoUpdate EXCEPT !.Title = Some("b"), !.Description = Some(""),
                       !.Status = Some(BadStatus)],
      [NoUpdate EXCEPT !.Title = Some("b"), !.DueDate = Some(0)] }

\* the filters sent to a running service
SvcFilters ==
    { [Status |-> Absent, Page |-> 1, PageSize |-> 10],
      [Status |-> Some(StatusDone), Page |-> 0, PageSize |-> 0],
      [Status |-> Absent, Page |-> 2, PageSize |-> 1] }

\* the filter sent to the service next to direct calls of the repository
MixFilters == { [Status |-> Absent, Page |-> 1, PageSize |-> 10] }

\* the requests sent to the service next to direct calls of the repository
MixCreateInputs ==
    { [Title |-> "b", Description |-> "", Status |-> Absent, DueDate |-> MaxNow + 1],
      [Title |-> "", Description |-> "d", Status |-> Some(BadStatus), DueDate |-> 0] }

MixUpdateInputs ==
    { [NoUpdate EXCEPT !.Title = Some("b")],
      [NoUpdate EXCEPT !.Title = Some(""), !.Status = Some(BadStatus)] }

(* --------------------------- specifications --------------------------- *)
\* the repository and the callers that hold and change its tasks
Next ==
    \/ \E tpl \in Templates : CallerNew(tpl)
    \/ \E a \in Addrs, f \in Fields \cup {"ID"} : \E v \in Values(f) : CallerMutate(a, f, v)
    \/ \E a \in Addrs : Create(a)
    \/ \E id \in IDs : GetByID(id)
    \/ \E a \in Addrs : Update(a)
    \/ \E id \in IDs : Delete(id)
    \/ \E order \in KeyOrders : ListAll(order)

Spec == Init /\ [][Next]_vars

\* the service alone, as the HTTP handlers use it
SvcNext ==
    \/ \E in \in SvcCreateInputs : CreateTask(in)
    \/ \E id \in IDs : GetTask(id)
    \/ \E id \in IDs, in \in SvcUpdateInputs : UpdateTask(id, in)
    \/ \E id \in IDs : DeleteTask(id)
    \/ \E filter \in SvcFilters, order \in KeyOrders : ListTasks(filter, order)
    \/ Tick

SvcSpec == Init /\ [][SvcNext]_vars

\* one store used through the repository and through the service
MixNext ==
    \/ \E tpl \in Templates : CallerNew(tpl)
    \/ \E a \in Addrs : Create(a)
    \/ \E id \in IDs : GetByID(id)
    \/ \E a \in Addrs : Update(a)
    \/ \E id \in IDs : Delete(id)
    \/ \E order \in KeyOrders : ListAll(order)
    \/ \E in \in MixCreateInputs : CreateTask(in)
    \/ \E id \in IDs : GetTask(id)
    \/ \E id \in IDs, in \in MixUpdateInputs : UpdateTask(id, in)
    \/ \E id \in IDs : DeleteTask(id)
    \/ \E filter \in MixFilters, order \in KeyOrders : ListTasks(filter, order)

MixSpec == Init /\ [][MixNext]_vars

\* a single CreateTask call on a new service, for every request and clock reading
InputInit ==
    /\ heap = EmptyMap
    /\ tasks = EmptyMap
    /\ held = {}
    /\ copies = {}
    /\ uuids = 0
    /\ now \in 1..MaxNow
    /\ muts = 0
    /\ last = NoOp
    /\ assigned = << >>
    /\ hist = EmptyMap
    /\ snap = EmptyMap
    /\ ConcInit
    /\ pin \in {[fn |-> "CreateTask", in |-> in] : in \in CreateInputs}

InputCreateTask ==
    /\ pin.fn = "CreateTask"
    /\ last = NoOp
    /\ CreateTask(pin.in)

InputNext == InputCreateTask

InputSpec == InputInit /\ [][InputNext]_vars

\* the requests that create the task a single UpdateTask call is made on
SeedInputs ==
    { [Title |-> "a", Description |-> "d", Status |-> Absent, DueDate |-> MaxNow + 1],
      [Title |-> "b", Description |-> "", Status |-> Some(StatusInProgress),
       DueDate |-> 2] }

\* a single UpdateTask call, for every request, identifier and clock reading, on
\* a service that has served one CreateTask
UpdInit ==
    /\ heap = EmptyMap
    /\ tasks = EmptyMap
    /\ held = {}
    /\ copies = {}
    /\ uuids = 0
    /\ now = 1
    /\ muts = 0
    /\ last = NoOp
    /\ assigned = << >>
    /\ hist = EmptyMap
    /\ snap = EmptyMap
    /\ ConcInit
    /\ pin \in {[fn |-> "UpdateTask", in |-> in] : in \in UpdateInputs}

UpdCreateTask ==
    /\ pin.fn = "UpdateTask"
    /\ last = NoOp
    /\ \E in \in SeedInputs : CreateTask(in)

UpdTick ==
    /\ pin.fn = "UpdateTask"
    /\ last.op = "CreateTask"
    /\ Tick

UpdUpdateTask ==
    /\ pin.fn = "UpdateTask"
    /\ last.op = "CreateTask"
    /\ \E id \in IDs : UpdateTask(id, pin.in)

UpdNext ==
    \/ UpdCreateTask
    \/ UpdTick
    \/ UpdUpdateTask

UpdSpec == UpdInit /\ [][UpdNext]_vars

\* the requests that created the tasks of the store a single ListTasks call is
\* made on
ListSeeds ==
    { [Title |-> "a", Description |-> "", Status |-> st, DueDate |-> d] :
        st \in {Absent, Some(StatusDone)}, d \in {2, 3} }

\* the filters of a single ListTasks call whose page and page size are small
ListFilters ==
    { [Status |-> st, Page |-> p, PageSize |-> sz] :
        st \in {Absent, Some(StatusDone), Some(BadStatus)},
        p \in (-1)..MaxPage, sz \in (-1)..MaxPage }

\* the filters of a single ListTasks call with every page and page size that
\* an int holds
WrapFilters ==
    { [Status |-> Absent, Page |-> p, PageSize |-> sz] :
        p \in MinInt..MaxInt, sz \in MinInt..MaxInt }

\* the store after CreateTask has served the requests c[1], ..., c[n] at time 1
ServedStore(n, c) ==
    /\ heap = [a \in 1..n |-> [CreateTaskEntity(c[a]) EXCEPT !.ID = <<a>>]]
    /\ tasks = [k \in {<<a>> : a \in 1..n} |-> k[1]]
    /\ held = {}
    /\ copies = {}
    /\ uuids = n
    /\ now = 1
    /\ muts = 0
    /\ last = NoOp
    /\ assigned = [a \in 1..n |-> <<a>>]
    /\ hist = [k \in {<<a>> : a \in 1..n} |-> [obj |-> k[1], w |-> "Create"]]
    /\ snap = EmptyMap

\* the service after CreateTask has served the requests, no call going on
Served(n, c) ==
    /\ ServedStore(n, c)
    /\ ConcInit

\* a single ListTasks call, for every filter with a small page and page size, on
\* a service that holds up to MaxList tasks
ListInit ==
    /\ \E n \in 0..MaxList : \E c \in [1..n -> ListSeeds] : Served(n, c)
    /\ pin \in {[fn |-> "ListTasks", filter |-> f] : f \in ListFilters}

ListApply ==
    /\ pin.fn = "ListTasks"
    /\ last = NoOp
    /\ \E order \in KeyOrders : ListTasks(pin.filter, order)

ListNext == ListApply

ListSpec == ListInit /\ [][ListNext]_vars

\* a single ListTasks call, for every page and page size, on a service that
\* holds up to MaxList tasks, the task created by the a-th request due at 1 + a
WrapInit ==
    /\ \E n \in 0..MaxList :
          Served(n, [a \in 1..n |-> [Title |-> "a", Description |-> "",
                                     Status |-> Absent, DueDate |-> 1 + a]])
    /\ pin \in {[fn |-> "ListTasks", filter |-> f] : f \in WrapFilters}

WrapNext == ListApply

WrapSpec == WrapInit /\ [][WrapNext]_vars

(* ------------------ the repository under concurrent callers ------------ *)
(* Each goroutine is in at most one repository call.  A call is a sequence  *)
(* of steps: it takes r.mu, runs the statements of the method one map or    *)
(* struct access at a time, and gives r.mu back when it returns (defer).    *)
(* The struct a caller passes is a value of the goroutine until the method  *)
(* files its address in the map.                                            *)

\* the variables of the sequential callers and of the callers of the service
seqvars == <<held, copies, now, muts, last, assigned, hist, snap, pin, calls>>

\* a faulty Lock that does not wait for the readers to leave
CanLockAlways(m) == TRUE

\* rw.w.Lock() inside Lock: a goroutine gets past when no other goroutine is in
\* Lock or holds the write lock
CanLockEnter(m) == m.w = 0

\* Lock returns when the goroutines that hold the read lock have left
CanLock(m) == m.r = {}

\* a faulty RLock that does not wait for a writer
CanRLockAlways(m) == TRUE

\* RLock returns when no goroutine is in Lock or holds the write lock
CanRLock(m) == m.w = 0

WriteOps == {"Create", "Update", "Delete"}

ReadOps == {"GetByID", "ListAll"}

\* the first statement of each method after it has the lock
FirstPc(op) ==
    CASE op = "Create" -> "c1"
      [] op = "Update" -> "u1"
      [] op = "Delete" -> "d1"
      [] op = "GetByID" -> "g1"
      [] op = "ListAll" -> "l1"

\* the structs that the map or a local pointer of a goroutine refers to
ConcLive(h, ts, ps) ==
    [a \in DOMAIN h \cap (Range(ts) \cup {ps[p].ptr : p \in Procs}) |-> h[a]]

\* the tasks that concurrent callers pass to Create and to Update
CreateArgs == {[ID |-> EmptyID] @@ tpl : tpl \in Templates}

UpdateArgs ==
    {[ID |-> id, Title |-> t[1], Description |-> "d", Status |-> t[2], DueDate |-> 2] :
        id \in IDs \ {EmptyID},
        t \in {<<"a", StatusPending>>, <<"b", StatusDone>>}}

\* the calls that have been made and have not drawn their identifier yet
CreatesAhead ==
    Cardinality({p \in Procs : procs[p].op = "Create" /\ procs[p].pc \in {"lock", "wait"}})

\* history: the call op of goroutine p takes effect at once on the store l.store
SeqApply(l, p, op, id, arg) ==
    LET nf == [err |-> NewNotFoundError("task not found"), vals |-> {}]
        nid == <<l.n + 1>>
    IN CASE op = "Create" ->
              [store |-> (nid :> [arg[1] EXCEPT !.ID = nid]) @@ l.store,
               n |-> l.n + 1,
               exp |-> [l.exp EXCEPT ![p] = [err |-> NilErr,
                                             vals |-> {[arg[1] EXCEPT !.ID = nid]}]]]
         [] op = "GetByID" ->
              [l EXCEPT !.exp[p] = IF id \in DOMAIN l.store
                                   THEN [err |-> NilErr, vals |-> {l.store[id]}]
                                   ELSE nf]
         [] op = "Update" ->
              IF id \in DOMAIN l.store
              THEN [l EXCEPT !.store[id] = arg[1], !.exp[p] = NoRes]
              ELSE [l EXCEPT !.exp[p] = nf]
         [] op = "Delete" ->
              IF id \in DOMAIN l.store
              THEN [l EXCEPT !.store = Without(l.store, id), !.exp[p] = NoRes]
              ELSE [l EXCEPT !.exp[p] = nf]
         [] op = "ListAll" ->
              [l EXCEPT !.exp[p] = [err |-> NilErr, vals |-> Range(l.store)]]

\* goroutine p calls a method of the repository
Call(p, op, id, arg) ==
    /\ procs[p].pc = "idle"
    /\ op = "Create" => lin.n + CreatesAhead < MaxCreate
    /\ procs' = [procs EXCEPT ![p] =
                    [Idle EXCEPT !.pc = IF op \in WriteOps THEN "lock" ELSE "rlock",
                                 !.op = op, !.id = id, !.arg = arg]]
    /\ UNCHANGED <<heap, tasks, uuids, mu, lin, seqvars>>

\* r.mu.Lock(), first half: p is the one goroutine in Lock
LockEnter(p) ==
    /\ procs[p].pc = "lock"
    /\ CanLockEnter(mu)
    /\ mu' = [mu EXCEPT !.w = p]
    /\ procs' = [procs EXCEPT ![p].pc = "wait"]
    /\ UNCHANGED <<heap, tasks, uuids, lin, seqvars>>

\* r.mu.Lock(), second half: p holds the write lock
LockAcquire(p) ==
    /\ procs[p].pc = "wait"
    /\ CanLock(mu)
    /\ mu' = [mu EXCEPT !.locked = TRUE]
    /\ procs' = [procs EXCEPT ![p].pc = FirstPc(procs[p].op)]
    /\ lin' = SeqApply(lin, p, procs[p].op, procs[p].id, procs[p].arg)
    /\ UNCHANGED <<heap, tasks, uuids, seqvars>>

\* r.mu.RLock(): p holds the read lock
RLockAcquire(p) ==
    /\ procs[p].pc = "rlock"
    /\ CanRLock(mu)
    /\ mu' = [mu EXCEPT !.r = @ \cup {p}]
    /\ procs' = [procs EXCEPT ![p].pc = FirstPc(procs[p].op)]
    /\ lin' = SeqApply(lin, p, procs[p].op, procs[p].id, procs[p].arg)
    /\ UNCHANGED <<heap, tasks, uuids, seqvars>>

\* Create: id := uuid.NewString(); task.ID = id
CreateNewID(p) ==
    /\ procs[p].pc = "c1"
    /\ uuids' = uuids + 1
    /\ procs' = [procs EXCEPT
                    ![p].pc = "c2",
                    ![p].id = CreateAssignedID(procs[p].arg[1]),
                    ![p].arg = <<[procs[p].arg[1] EXCEPT
                                     !.ID = CreateAssignedID(procs[p].arg[1])]>>]
    /\ UNCHANGED <<heap, tasks, mu, lin, seqvars>>

\* Create: r.tasks[id] = task; return nil
CreateStore(p) ==
    /\ procs[p].pc = "c2"
    /\ Addrs \ DOMAIN heap # {}
    /\ LET a == Lowest(Addrs \ DOMAIN heap)
       IN /\ tasks' = (procs[p].id :> a) @@ tasks
          /\ procs' = [procs EXCEPT
                          ![p].pc = "ret",
                          ![p].res = [err |-> NilErr, vals |-> {procs[p].arg[1]}]]
          /\ heap' = ConcLive((a :> procs[p].arg[1]) @@ heap, tasks', procs')
    /\ UNCHANGED <<uuids, mu, lin, seqvars>>

\* a faulty Update that does not look the identifier up
UpdateLookupSkipped(p) ==
    /\ procs[p].pc = "u1"
    /\ procs' = [procs EXCEPT ![p].pc = "u2"]
    /\ UNCHANGED <<heap, tasks, uuids, mu, lin, seqvars>>

\* Update: if _, ok := r.tasks[task.ID]; !ok { return NotFound }
UpdateLookup(p) ==
    /\ procs[p].pc = "u1"
    /\ procs' = IF Lookup(tasks, procs[p].id) # NilErr
                THEN [procs EXCEPT ![p].pc = "ret",
                                   ![p].res = [NoRes EXCEPT
                                                  !.err = Lookup(tasks, procs[p].id)]]
                ELSE [procs EXCEPT ![p].pc = "u2"]
    /\ UNCHANGED <<heap, tasks, uuids, mu, lin, seqvars>>

\* Update: copy := *task; r.tasks[task.ID] = &copy; return nil
UpdateStore(p) ==
    /\ procs[p].pc = "u2"
    /\ Addrs \ DOMAIN heap # {}
    /\ LET a == Lowest(Addrs \ DOMAIN heap)
       IN /\ tasks' = (procs[p].id :> a) @@ tasks
          /\ procs' = [procs EXCEPT ![p].pc = "ret"]
          /\ heap' = ConcLive((a :> UpdateCopy(procs[p].arg[1])) @@ heap, tasks', procs')
    /\ UNCHANGED <<uuids, mu, lin, seqvars>>

\* Delete: if _, ok := r.tasks[id]; !ok { return NotFound }
DeleteLookup(p) ==
    /\ procs[p].pc = "d1"
    /\ procs' = IF Lookup(tasks, procs[p].id) # NilErr
                THEN [procs EXCEPT ![p].pc = "ret",
                                   ![p].res = [NoRes EXCEPT
                                                  !.err = Lookup(tasks, procs[p].id)]]
                ELSE [procs EXCEPT ![p].pc = "d2"]
    /\ UNCHANGED <<heap, tasks, uuids, mu, lin, seqvars>>

\* Delete: delete(r.tasks, id); return nil
DeleteRemove(p) ==
    /\ procs[p].pc = "d2"
    /\ tasks' = Without(tasks, procs[p].id)
    /\ procs' = [procs EXCEPT ![p].pc = "ret"]
    /\ heap' = ConcLive(heap, tasks', procs')
    /\ UNCHANGED <<uuids, mu, lin, seqvars>>

\* GetByID: task, ok := r.tasks[id]; if !ok { return nil, NotFound }
GetLookup(p) ==
    /\ procs[p].pc = "g1"
    /\ procs' = IF Lookup(tasks, procs[p].id) # NilErr
                THEN [procs EXCEPT ![p].pc = "ret",
                                   ![p].res = [NoRes EXCEPT
                                                  !.err = Lookup(tasks, procs[p].id)]]
                ELSE [procs EXCEPT ![p].pc = "g2", ![p].ptr = tasks[procs[p].id]]
    /\ UNCHANGED <<heap, tasks, uuids, mu, lin, seqvars>>

\* GetByID: copy := *task; return &copy, nil
GetCopy(p) ==
    /\ procs[p].pc = "g2"
    /\ procs' = [procs EXCEPT
                    ![p].pc = "ret",
                    ![p].ptr = 0,
                    ![p].res = [err |-> NilErr,
                                vals |-> {GetByIDCopy(heap[procs[p].ptr])}]]
    /\ heap' = ConcLive(heap, tasks, procs')
    /\ UNCHANGED <<tasks, uuids, mu, lin, seqvars>>

\* ListAll: for _, t := range r.tasks { copy := *t; out = append(out, &copy) }
ListCopy(p) ==
    /\ procs[p].pc = "l1"
    /\ procs' = [procs EXCEPT
                    ![p].pc = "ret",
                    ![p].res = [err |-> NilErr,
                                vals |-> {ListAllCopy(heap[tasks[k]]) : k \in DOMAIN tasks}]]
    /\ UNCHANGED <<heap, tasks, uuids, mu, lin, seqvars>>

\* the method returns and the deferred Unlock or RUnlock runs
Return(p) ==
    /\ procs[p].pc = "ret"
    /\ mu' = IF procs[p].op \in WriteOps
             THEN [mu EXCEPT !.w = 0, !.locked = FALSE]
             ELSE [mu EXCEPT !.r = @ \ {p}]
    /\ procs' = [procs EXCEPT ![p] = Idle]
    /\ lin' = [lin EXCEPT !.exp[p] = NoRes]
    /\ UNCHANGED <<heap, tasks, uuids, seqvars>>

ConcNext ==
    \E p \in Procs :
        \/ \E arg \in CreateArgs : Call(p, "Create", EmptyID, <<arg>>)
        \/ \E arg \in UpdateArgs : Call(p, "Update", arg.ID, <<arg>>)
        \/ \E id \in IDs \ {EmptyID} : Call(p, "Delete", id, << >>)
        \/ \E id \in IDs \ {EmptyID} : Call(p, "GetByID", id, << >>)
        \/ Call(p, "ListAll", EmptyID, << >>)
        \/ LockEnter(p)
        \/ LockAcquire(p)
        \/ RLockAcquire(p)
        \/ CreateNewID(p)
        \/ CreateStore(p)
        \/ UpdateLookup(p)
        \/ UpdateStore(p)
        \/ DeleteLookup(p)
        \/ DeleteRemove(p)
        \/ GetLookup(p)
        \/ GetCopy(p)
        \/ ListCopy(p)
        \/ Return(p)

ConcSpec == Init /\ [][ConcNext]_vars

(* ------------------- the service under concurrent callers -------------- *)
(* Each goroutine makes service calls one after the other.  A service call  *)
(* runs its repository calls step by step as above; what it does between    *)
(* two repository calls touches only its own local variables and is part    *)
(* of the step that ends the first of the two.                              *)

\* the goroutine at the start of the repository method op
Invoked(op, id, arg) ==
    [Idle EXCEPT !.pc = IF op \in WriteOps THEN "lock" ELSE "rlock",
                 !.op = op, !.id = id, !.arg = arg]

\* a faulty return that gives the lock back on the success path only
UnlockedOnSuccess(p) ==
    IF procs[p].res.err # NilErr THEN mu
    ELSE IF procs[p].op \in WriteOps
    THEN [mu EXCEPT !.w = 0, !.locked = FALSE]
    ELSE [mu EXCEPT !.r = @ \ {p}]

\* r.mu after the deferred Unlock or RUnlock of goroutine p
Unlocked(p) ==
    IF procs[p].op \in WriteOps
    THEN [mu EXCEPT !.w = 0, !.locked = FALSE]
    ELSE [mu EXCEPT !.r = @ \ {p}]

\* the requests of the concurrent callers
TaskSeeds == { [Title |-> "a", Description |-> "d", Status |-> Absent, DueDate |-> 3] }

TaskCreateInputs ==
    { [Title |-> "b", Description |-> "", Status |-> Some(StatusInProgress), DueDate |-> 2],
      [Title |-> "", Description |-> "", Status |-> Absent, DueDate |-> 2] }

TaskUpdateInputs ==
    { [NoUpdate EXCEPT !.Title = Some("b")],
      [NoUpdate EXCEPT !.Status = Some(StatusDone)],
      [NoUpdate EXCEPT !.Description = Some(""), !.Status = Some(BadStatus)] }

TaskFilters == { [Status |-> Absent, Page |-> 1, PageSize |-> 10] }

\* goroutine p can start a service call
CanStart(p) ==
    /\ calls[p].st \in {"idle", "done"}
    /\ calls[p].n < MaxCalls
    /\ procs[p].pc = "idle"

\* the record of a service call that has started
Started(p, op, id, in, st) ==
    [NoCall EXCEPT !.op = op, !.id = id, !.in = in, !.st = st, !.n = calls[p].n + 1]

\* the variables that the start of a service call leaves alone
startvars ==
    <<heap, tasks, uuids, mu, lin, held, copies, now, muts, last, assigned, hist, snap,
      pin>>

\* CreateTask: validation, the new struct, then s.repo.Create(task)
TaskCreateTask(p, in) ==
    /\ CanStart(p)
    /\ IF CreateTaskValidate(in, now) # NilErr
       THEN /\ calls' = [calls EXCEPT ![p] =
                            [Started(p, "CreateTask", EmptyID, in, "done") EXCEPT
                                !.err = CreateTaskValidate(in, now)]]
            /\ procs' = procs
       ELSE /\ lin.n + CreatesAhead < MaxCreate
            /\ calls' = [calls EXCEPT ![p] = Started(p, "CreateTask", EmptyID, in, "repo")]
            /\ procs' = [procs EXCEPT ![p] =
                            Invoked("Create", EmptyID, <<CreateTaskEntity(in)>>)]
    /\ UNCHANGED startvars

\* GetTask: s.repo.GetByID(id)
TaskGetTask(p, id) ==
    /\ CanStart(p)
    /\ calls' = [calls EXCEPT ![p] = Started(p, "GetTask", id, << >>, "repo")]
    /\ procs' = [procs EXCEPT ![p] = Invoked("GetByID", id, << >>)]
    /\ UNCHANGED startvars

\* UpdateTask: task, err := s.repo.GetByID(id)
TaskUpdateTask(p, id, in) ==
    /\ CanStart(p)
    /\ calls' = [calls EXCEPT ![p] = Started(p, "UpdateTask", id, in, "fetch")]
    /\ procs' = [procs EXCEPT ![p] = Invoked("GetByID", id, << >>)]
    /\ UNCHANGED startvars

\* DeleteTask: s.repo.Delete(id)
TaskDeleteTask(p, id) ==
    /\ CanStart(p)
    /\ calls' = [calls EXCEPT ![p] = Started(p, "DeleteTask", id, << >>, "repo")]
    /\ procs' = [procs EXCEPT ![p] = Invoked("Delete", id, << >>)]
    /\ UNCHANGED startvars

\* ListTasks: tasks, err := s.repo.ListAll()
TaskListTasks(p, filter) ==
    /\ CanStart(p)
    /\ calls' = [calls EXCEPT ![p] = Started(p, "ListTasks", EmptyID, filter, "repo")]
    /\ procs' = [procs EXCEPT ![p] = Invoked("ListAll", EmptyID, << >>)]
    /\ UNCHANGED startvars

\* the one struct of a result
TheTask(vals) == CHOOSE t \in vals : TRUE

\* the orders in which a set of structs can stand in a slice
SlicesOf(vals) ==
    {sq \in [1..Cardinality(vals) -> vals] : \A i, j \in DOMAIN sq : i # j => sq[i] # sq[j]}

\* UpdateTask: GetByID returns; on success the merge of the request into the
\* copy and the call of s.repo.Update(task)
TaskFetched(p) ==
    /\ calls[p].st = "fetch"
    /\ procs[p].pc = "ret"
    /\ mu' = Unlocked(p)
    /\ lin' = [lin EXCEPT !.exp[p] = NoRes]
    /\ IF procs[p].res.err # NilErr
       THEN /\ calls' = [calls EXCEPT ![p].st = "done", ![p].err = procs[p].res.err]
            /\ procs' = [procs EXCEPT ![p] = Idle]
       ELSE LET m == UpdateTaskMerge(TheTask(procs[p].res.vals), calls[p].in, now)
            IN IF m.err # NilErr
               THEN /\ calls' = [calls EXCEPT ![p].st = "done", ![p].err = m.err,
                                              ![p].task = <<m.task>>]
                    /\ procs' = [procs EXCEPT ![p] = Idle]
               ELSE /\ calls' = [calls EXCEPT ![p].st = "store", ![p].task = <<m.task>>]
                    /\ procs' = [procs EXCEPT ![p] =
                                    Invoked("Update", m.task.ID, <<m.task>>)]
    /\ UNCHANGED <<heap, tasks, uuids, held, copies, now, muts, last, assigned, hist,
                   snap, pin>>

\* the last repository call of a service call returns, and the service call
\* returns with its result
TaskReturned(p) ==
    /\ calls[p].st \in {"repo", "store"}
    /\ procs[p].pc = "ret"
    /\ mu' = Unlocked(p)
    /\ lin' = [lin EXCEPT !.exp[p] = NoRes]
    /\ procs' = [procs EXCEPT ![p] = Idle]
    /\ \E ret \in
          IF procs[p].res.err # NilErr THEN {<< >>}
          ELSE CASE calls[p].op \in {"CreateTask", "GetTask"} ->
                        {<<TheTask(procs[p].res.vals)>>}
                 [] calls[p].op = "UpdateTask" -> {calls[p].task}
                 [] calls[p].op = "DeleteTask" -> {<< >>}
                 [] calls[p].op = "ListTasks" ->
                        UNION {{r.res.out : r \in ListTasksOutcomes(all, calls[p].in)} :
                                  all \in SlicesOf(procs[p].res.vals)} :
          calls' = [calls EXCEPT ![p].st = "done", ![p].err = procs[p].res.err,
                                 ![p].ret = ret]
    /\ UNCHANGED <<heap, tasks, uuids, held, copies, now, muts, last, assigned, hist,
                   snap, pin>>

\* a service that has served one CreateTask, and no call going on
TaskInit ==
    /\ \E c \in [1..1 -> TaskSeeds] : ServedStore(1, c)
    /\ pin = NoInput
    /\ mu = RWMutexZero
    /\ procs = [p \in Procs |-> Idle]
    /\ calls = [p \in Procs |-> NoCall]
    /\ lin = [store |-> [k \in DOMAIN tasks |-> heap[tasks[k]]], n |-> uuids,
              exp |-> [p \in Procs |-> NoRes]]

TaskNext ==
    \E p \in Procs :
        \/ \E in \in TaskCreateInputs : TaskCreateTask(p, in)
        \/ \E id \in IDs \ {EmptyID} : TaskGetTask(p, id)
        \/ \E id \in IDs \ {EmptyID}, in \in TaskUpdateInputs : TaskUpdateTask(p, id, in)
        \/ \E id \in IDs \ {EmptyID} : TaskDeleteTask(p, id)
        \/ \E filter \in TaskFilters : TaskListTasks(p, filter)
        \/ LockEnter(p)
        \/ LockAcquire(p)
        \/ RLockAcquire(p)
        \/ CreateNewID(p)
        \/ CreateStore(p)
        \/ UpdateLookup(p)
        \/ UpdateStore(p)
        \/ DeleteLookup(p)
        \/ DeleteRemove(p)
        \/ GetLookup(p)
        \/ GetCopy(p)
        \/ ListCopy(p)
        \/ TaskFetched(p)
        \/ TaskReturned(p)

TaskSpec == TaskInit /\ [][TaskNext]_vars

\* the steps of goroutine p inside a service call it has started
TaskStep(p) ==
    \/ LockEnter(p)
    \/ LockAcquire(p)
    \/ RLockAcquire(p)
    \/ CreateNewID(p)
    \/ CreateStore(p)
    \/ UpdateLookup(p)
    \/ UpdateStore(p)
    \/ DeleteLookup(p)
    \/ DeleteRemove(p)
    \/ GetLookup(p)
    \/ GetCopy(p)
    \/ ListCopy(p)
    \/ TaskFetched(p)
    \/ TaskReturned(p)

\* fair scheduling: a goroutine that can take a step of its call takes one, and
\* a goroutine that waits for r.mu gets it when it is free again and again
\* (sync.Mutex and sync.RWMutex let no waiter starve)
TaskFairness ==
    \A p \in Procs :
        /\ WF_vars(TaskStep(p))
        /\ SF_vars(LockEnter(p))
        /\ SF_vars(LockAcquire(p))
        /\ SF_vars(RLockAcquire(p))

TaskFairSpec == TaskSpec /\ TaskFairness

\* separate ListTasks calls, one per goroutine, for pages of one status filter
\* and one page size, on a store of up to MaxList tasks that no call changes
PageInit ==
    /\ \E n \in 0..MaxList : \E c \in [1..n -> ListSeeds] : ServedStore(n, c)
    /\ pin \in {[fn |-> "Pages", Status |-> st, PageSize |-> sz] :
                   st \in {Absent, Some(StatusDone)}, sz \in 1..MaxPage}
    /\ mu = RWMutexZero
    /\ procs = [p \in Procs |-> Idle]
    /\ calls = [p \in Procs |-> NoCall]
    /\ lin = [store |-> [k \in DOMAIN tasks |-> heap[tasks[k]]], n |-> uuids,
              exp |-> [p \in Procs |-> NoRes]]

\* goroutine p asks for the page pg
PageListTasks(p, pg) ==
    /\ pin.fn = "Pages"
    /\ TaskListTasks(p, [Status |-> pin.Status, Page |-> pg, PageSize |-> pin.PageSize])

PageNext ==
    \E p \in Procs :
        \/ \E pg \in 1..MaxPage : PageListTasks(p, pg)
        \/ RLockAcquire(p)
        \/ ListCopy(p)
        \/ TaskReturned(p)

PageSpec == PageInit /\ [][PageNext]_vars

(* --------------------------- the HTTP handlers -------------------------- *)
\* the status codes of fiber that the handlers answer with
StatusOK == 200

StatusCreated == 201

StatusNoContent == 204

StatusBadRequest == 400

StatusNotFound == 404

StatusInternalServerError == 500

\* func (h *TaskHandler) CreateTask: the answer to the result of the service
RespondCreateTask(err) ==
    IF err = NilErr THEN StatusCreated
    ELSE IF IsValidation(err) THEN StatusBadRequest
    ELSE StatusInternalServerError

\* func (h *TaskHandler) GetTask
RespondGetTask(err) ==
    IF err = NilErr THEN StatusOK
    ELSE IF IsNotFound(err) THEN StatusNotFound
    ELSE StatusInternalServerError

\* a faulty UpdateTask handler without the branch for the not-found error
RespondUpdateTaskValidationOnly(err) ==
    IF err = NilErr THEN StatusOK
    ELSE IF IsValidation(err) THEN StatusBadRequest
    ELSE StatusInternalServerError

\* func (h *TaskHandler) UpdateTask
RespondUpdateTask(err) ==
    IF err = NilErr THEN StatusOK
    ELSE IF IsValidation(err) THEN StatusBadRequest
    ELSE IF IsNotFound(err) THEN StatusNotFound
    ELSE StatusInternalServerError

\* func (h *TaskHandler) DeleteTask
RespondDeleteTask(err) ==
    IF err = NilErr THEN StatusNoContent
    ELSE IF IsNotFound(err) THEN StatusNotFound
    ELSE StatusInternalServerError

\* func (h *TaskHandler) ListTasks
RespondListTasks(err) ==
    IF err = NilErr THEN StatusOK
    ELSE IF IsValidation(err) THEN StatusBadRequest
    ELSE StatusInternalServerError

\* the service operations
ServiceOps == {"CreateTask", "GetTask", "UpdateTask", "DeleteTask", "ListTasks"}

\* the answer of the handler of the operation op to the error err of the service
Respond(op, err) ==
    CASE op = "CreateTask" -> RespondCreateTask(err)
      [] op = "GetTask" -> RespondGetTask(err)
      [] op = "UpdateTask" -> RespondUpdateTask(err)
      [] op = "DeleteTask" -> RespondDeleteTask(err)
      [] op = "ListTasks" -> RespondListTasks(err)

(* ------------------------------ properties ---------------------------- *)
\* the stored record under identifier k
Stored(k) == heap[tasks[k]]

\* the struct an operation returned
Returned == heap[last.ret[1]]

\* C1: every Create assigns an identifier that no earlier Create on the store
\* assigned, whether or not the earlier task was deleted since and whatever
\* identifier the caller had put in the task.
C1_CreateIdsUnique ==
    /\ \A i, j \in DOMAIN assigned : i # j => assigned[i] # assigned[j]
    /\ last.op = "Create" =>
          /\ last.id = assigned[Len(assigned)]
          /\ Returned.ID = last.id
          /\ last.id \in DOMAIN tasks

\* the second Create got a task that carried an identifier, after the first
\* task was deleted
C1_Witness ==
    /\ last.op = "Create"
    /\ Len(assigned) = 2
    /\ assigned[1] \notin DOMAIN tasks
    /\ snap[last.id].given.ID # EmptyID

\* C2: Create(t) followed by GetByID(t.id) with no other write to the record in
\* between succeeds and returns the title, description, status and due date
\* given to Create, under the identifier Create assigned.
C2_CreateGetRoundTrip ==
    (/\ last.op = "GetByID"
     /\ last.id \in DOMAIN hist
     /\ hist[last.id].w = "Create")
    => /\ last.err = NilErr
       /\ Len(last.ret) = 1
       /\ Payload(Returned) = Payload(snap[last.id].given)
       /\ Returned.ID = last.id

\* a round trip next to a second record
C2_Witness ==
    /\ last.op = "GetByID"
    /\ last.id \in DOMAIN hist
    /\ hist[last.id].w = "Create"
    /\ Cardinality(DOMAIN tasks) = 2

\* the pointers in the hands of a caller: the ones kept and the ones the last
\* operation returned
InHand == held \cup Range(last.ret)

\* C3, as claimed: no task a caller holds is a stored record.
C3_NoCallerHoldsStored == \A a \in InHand : a \notin Range(tasks)

\* C3, as the code has it: a read (GetByID, GetTask, ListAll) and UpdateTask
\* return structs that are no stored record, Update stores a struct no caller
\* holds, and a stored record that a caller holds is the struct the caller
\* passed to Create, or CreateTask returned, with no Update of it since.
C3_SharedOnlyFromCreate ==
    /\ \A k \in DOMAIN tasks :
          tasks[k] \in InHand =>
              (hist[k].obj = tasks[k] /\ hist[k].w \in {"Create", "Alias"})
    /\ last.op \in {"GetByID", "GetTask", "ListAll", "UpdateTask"} =>
          Range(last.ret) \cap Range(tasks) = {}
    /\ (last.op = "Update" /\ last.err = NilErr) => tasks[last.id] \notin InHand

\* the struct CreateTask returned is the stored record, next to a record that
\* an Update replaced by a copy
C3_Witness ==
    /\ last.op = "CreateTask"
    /\ last.err = NilErr
    /\ tasks[last.id] = last.ret[1]
    /\ \E k \in DOMAIN tasks : hist[k].w = "Update" /\ hist[k].obj \in held

\* C4: after Create(t), GetByID(t.id) returns what the caller's struct t holds
\* now, changes made since Create included, as long as no Update replaced the
\* record; after a successful Update of the identifier, GetByID returns what
\* Update was given, whatever t holds now.
C4_SharedUntilUpdate ==
    (/\ last.op = "GetByID"
     /\ last.id \in DOMAIN hist
     /\ hist[last.id].obj \in DOMAIN heap)
    => /\ hist[last.id].w \in {"Create", "Alias"} =>
             /\ last.err = NilErr
             /\ Returned = heap[hist[last.id].obj]
       /\ (hist[last.id].w = "Update" /\ last.id \in DOMAIN snap) =>
             /\ last.err = NilErr
             /\ tasks[last.id] # hist[last.id].obj
             /\ Returned = snap[last.id].upd

\* GetByID shows a field the caller changed in t after Create
C4_Witness ==
    /\ last.op = "GetByID"
    /\ last.id \in DOMAIN hist
    /\ hist[last.id].w = "Alias"
    /\ muts = 1
    /\ Payload(Returned) # Payload(snap[last.id].given)

\* GetByID after an Update does not show a field the caller changed in t since
C4_WitnessAfterUpdate ==
    /\ last.op = "GetByID"
    /\ last.id \in DOMAIN hist
    /\ hist[last.id].w = "Update"
    /\ hist[last.id].obj \in DOMAIN heap
    /\ muts = 1
    /\ Payload(Returned) # Payload(heap[hist[last.id].obj])

\* what GetByID and ListAll read: the stored record under each identifier
StoreView == [k \in DOMAIN tasks |-> Stored(k)]

\* the caller assigns a field of the struct at address a
Mutates(a) == last'.op = "Mutate" /\ last'.ret = <<a>>

\* C5: an assignment to a field of a struct that GetByID or ListAll returned for
\* an identifier changes neither the record stored under that identifier, which
\* is what a later GetByID or ListAll reads, nor any other struct returned for
\* the identifier.
C5_ReadCopiesIsolated ==
    [][\A c \in copies :
          Mutates(c[1]) =>
              /\ tasks' = tasks
              /\ c[2] \in DOMAIN tasks => StoreView'[c[2]] = StoreView[c[2]]
              /\ \A d \in copies :
                    (d[2] = c[2] /\ d[1] # c[1]) => heap'[d[1]] = heap[d[1]]
      ]_vars

\* a returned struct was changed while its record is stored and a second struct
\* returned for the same identifier is held
C5_Witness ==
    /\ last.op = "Mutate"
    /\ \E c, d \in copies :
          /\ c[1] = last.ret[1]
          /\ d[2] = c[2]
          /\ d[1] # c[1]
          /\ c[2] \in DOMAIN tasks
          /\ heap[c[1]] # heap[d[1]]

\* C6: a successful Update(t) leaves under t.ID a record equal to t in every
\* field, in a struct no caller holds; a GetByID of the identifier that comes
\* next returns a task equal to t; and an assignment to a struct a caller holds
\* changes no record that an Update wrote.
C6_UpdateReplaces ==
    /\ [](last.op = "Update" /\ last.err = NilErr =>
              /\ Stored(last.id) = Returned
              /\ tasks[last.id] \notin held)
    /\ [][(/\ last.op = "Update"
           /\ last.err = NilErr
           /\ last'.op = "GetByID"
           /\ last'.id = last.id)
          => /\ last'.err = NilErr
             /\ heap'[last'.ret[1]] = Returned]_vars
    /\ [][\A k \in DOMAIN tasks :
             (last'.op = "Mutate" /\ hist[k].w = "Update") =>
                 /\ k \in DOMAIN tasks'
                 /\ StoreView'[k] = StoreView[k]]_vars

\* an Update replaced a record that held something else
C6_Witness ==
    /\ last.op = "Update"
    /\ last.err = NilErr
    /\ hist[last.id].obj \in DOMAIN heap
    /\ Payload(heap[hist[last.id].obj]) # Payload(Returned)

\* an assignment to the updated struct after Update returned
C6_WitnessMutated ==
    /\ last.op = "Mutate"
    /\ \E k \in DOMAIN tasks :
          /\ hist[k].w = "Update"
          /\ Stored(k).ID = Returned.ID
          /\ Stored(k) # Returned

\* C7, as claimed: once Delete(id) has succeeded, GetByID(id) fails with
\* NotFound and the result of ListAll holds no task with that identifier (no
\* later Create returns the identifier, by C1); each successful Delete lowers
\* the number of stored tasks by exactly one, so that the store holds as many
\* tasks as Create added less the ones deleted.
C7_DeleteRemoves ==
    /\ \A id \in DOMAIN hist :
           hist[id].w = "Delete" =>
               /\ id \notin DOMAIN tasks
               /\ (last.op = "GetByID" /\ last.id = id) => IsNotFound(last.err)
               /\ last.op = "ListAll" =>
                     \A i \in DOMAIN last.ret : heap[last.ret[i]].ID # id
    /\ Cardinality(DOMAIN tasks) =
           Len(assigned) - Cardinality({id \in DOMAIN hist : hist[id].w = "Delete"})

\* C7, what the code keeps: after a successful Delete(id) the identifier is no
\* key of the store, GetByID(id) fails with NotFound, the number of stored
\* tasks is one less, and a task that ListAll returns with that identifier is
\* a record under another key, shared with a caller who changed its ID field.
C7_DeleteRemovesKey ==
    /\ \A id \in DOMAIN hist :
           hist[id].w = "Delete" =>
               /\ id \notin DOMAIN tasks
               /\ (last.op = "GetByID" /\ last.id = id) => IsNotFound(last.err)
               /\ last.op = "ListAll" =>
                     \A i \in DOMAIN last.ret :
                         heap[last.ret[i]].ID = id =>
                             \E k \in DOMAIN tasks :
                                 /\ k # id
                                 /\ Stored(k).ID = id
                                 /\ hist[k].w = "Alias"
    /\ Cardinality(DOMAIN tasks) =
           Len(assigned) - Cardinality({id \in DOMAIN hist : hist[id].w = "Delete"})

\* ListAll returns a task that carries the identifier of a deleted task
C7_Witness ==
    /\ last.op = "ListAll"
    /\ \E i \in DOMAIN last.ret :
          /\ heap[last.ret[i]].ID \in DOMAIN hist
          /\ hist[heap[last.ret[i]].ID].w = "Delete"

\* C8: GetByID, Update, Delete, GetTask, UpdateTask and DeleteTask, called with
\* an identifier that is no key of the store, fail with an error for which
\* IsNotFound is true and IsValidation is false.
C8_NotFoundSymmetry ==
    [][(/\ last'.op \in {"GetByID", "Update", "Delete",
                         "GetTask", "UpdateTask", "DeleteTask"}
        /\ last'.id \notin DOMAIN tasks)
       => /\ IsNotFound(last'.err)
          /\ ~IsValidation(last'.err)
          /\ tasks' = tasks]_vars

\* UpdateTask, with a request that fails validation, for a deleted task
C8_Witness ==
    /\ last.op = "UpdateTask"
    /\ last.id \in DOMAIN hist
    /\ hist[last.id].w = "Delete"
    /\ IsNotFound(last.err)
    /\ DOMAIN tasks # {}

\* C9: after any sequence of CreateTask, UpdateTask and DeleteTask, every
\* stored task has a non-empty id, a non-empty title, a status among PENDING,
\* IN_PROGRESS and DONE, and a non-zero due date.
C9_StoredTasksValid ==
    \A k \in DOMAIN tasks :
        /\ Stored(k).ID # << >>
        /\ Stored(k).Title # ""
        /\ Stored(k).Status \in {"PENDING", "IN_PROGRESS", "DONE"}
        /\ Stored(k).DueDate # 0

\* an UpdateTask was refused, after one that went through, next to a deletion
C9_Witness ==
    /\ last.op = "UpdateTask"
    /\ IsValidation(last.err)
    /\ \E k \in DOMAIN tasks : hist[k].w = "Update"
    /\ \E k \in DOMAIN hist : hist[k].w = "Delete"

\* the outcome of CreateTask's checks, read off the request and the clock
C10_Expected ==
    LET in == pin.in
    IN CASE in.Title = "" -> [Type |-> "validation", Message |-> "title is required"]
         [] in.Title # "" /\ in.DueDate = 0 ->
              [Type |-> "validation", Message |-> "due_date is required"]
         [] in.Title # "" /\ in.DueDate # 0 /\ in.DueDate <= now ->
              [Type |-> "validation", Message |-> "due_date must be in the future"]
         [] in.Title # "" /\ in.DueDate > now
              /\ in.Status \notin {<< >>, <<"PENDING">>, <<"IN_PROGRESS">>, <<"DONE">>} ->
              [Type |-> "validation", Message |-> "invalid status"]
         [] OTHER -> NilErr

\* C10: CreateTask returns the first failure, in the order title, due date
\* given, due date after the clock (a due date equal to the clock fails),
\* status, as a Validation error with the fixed message; a request that passes
\* the four checks gets no Validation error.
C10_CreateTaskValidationOrder ==
    last.op = "CreateTask" =>
        /\ last.err = C10_Expected
        /\ C10_Expected = NilErr => (~IsValidation(last.err) /\ last.id \in DOMAIN tasks)
        /\ C10_Expected # NilErr => (IsValidation(last.err) /\ tasks = EmptyMap)

\* a due date equal to the clock, with a status that would fail the next check
C10_Witness ==
    /\ last.op = "CreateTask"
    /\ pin.in.Title # ""
    /\ pin.in.DueDate = now
    /\ pin.in.Status = <<"BOGUS">>
    /\ last.err.Message = "due_date must be in the future"

\* the step is a call of the service operation op (the clock does not move
\* during a call)
Calls(op) == last'.op = op /\ now' = now

\* a request that passes the four checks of CreateTask, in the words of C10
C11_Valid(in) ==
    /\ in.Title # ""
    /\ in.DueDate > now
    /\ in.Status \in {<< >>, <<"PENDING">>, <<"IN_PROGRESS">>, <<"DONE">>}

\* C11: a CreateTask with a valid request succeeds, adds exactly one task to
\* the store and leaves the others as they were, and returns that task with a
\* non-empty identifier, the title, description and due date of the request,
\* and the status of the request, or PENDING when the request has none; a
\* GetTask of the returned identifier that comes next returns the same values.
C11_CreateTaskResult ==
    /\ [][(Calls("CreateTask") /\ C11_Valid(last'.in)) =>
             /\ last'.err = NilErr
             /\ last'.id # << >>
             /\ last'.id \notin DOMAIN tasks
             /\ DOMAIN tasks' = DOMAIN tasks \cup {last'.id}
             /\ \A k \in DOMAIN tasks : StoreView'[k] = StoreView[k]
             /\ StoreView'[last'.id] = heap'[last'.ret[1]]
             /\ heap'[last'.ret[1]] =
                   [ID |-> last'.id,
                    Title |-> last'.in.Title,
                    Description |-> last'.in.Description,
                    Status |-> IF last'.in.Status = << >> THEN "PENDING"
                               ELSE last'.in.Status[1],
                    DueDate |-> last'.in.DueDate]]_vars
    /\ [][(/\ last.op = "CreateTask"
           /\ last.err = NilErr
           /\ last'.op = "GetTask"
           /\ last'.id = last.id)
          => /\ last'.err = NilErr
             /\ heap'[last'.ret[1]] = Returned]_vars

\* a second task was created, from a request without a status
C11_Witness ==
    /\ last.op = "CreateTask"
    /\ last.err = NilErr
    /\ last.in.Status = << >>
    /\ Returned.Status = "PENDING"
    /\ Cardinality(DOMAIN tasks) = 2

\* a GetTask right after the CreateTask of a request with a status
C11_WitnessGet ==
    /\ last.op = "GetTask"
    /\ last.err = NilErr
    /\ Returned.Status = "DONE"
    /\ last.id = assigned[Len(assigned)]

\* C12: a successful UpdateTask(id, input) stores under id, and returns, a task
\* in which every field the request supplies has the supplied value, an empty
\* description included, and every other field and the identifier have the
\* value the stored task had before the call; no key is added or removed.
C12_UpdateTaskMerges ==
    [][(Calls("UpdateTask") /\ last'.err = NilErr) =>
          /\ last'.id \in DOMAIN tasks
          /\ DOMAIN tasks' = DOMAIN tasks
          /\ \A k \in DOMAIN tasks \ {last'.id} : StoreView'[k] = StoreView[k]
          /\ heap'[last'.ret[1]] = StoreView'[last'.id]
          /\ StoreView'[last'.id] =
                [ID |-> StoreView[last'.id].ID,
                 Title |-> IF last'.in.Title = << >>
                           THEN StoreView[last'.id].Title
                           ELSE last'.in.Title[1],
                 Description |-> IF last'.in.Description = << >>
                                 THEN StoreView[last'.id].Description
                                 ELSE last'.in.Description[1],
                 Status |-> IF last'.in.Status = << >>
                            THEN StoreView[last'.id].Status
                            ELSE last'.in.Status[1],
                 DueDate |-> IF last'.in.DueDate = << >>
                             THEN StoreView[last'.id].DueDate
                             ELSE last'.in.DueDate[1]]
      ]_vars

\* an UpdateTask that empties the description, sets the status and leaves the
\* title and the due date
C12_Witness ==
    /\ last.op = "UpdateTask"
    /\ last.err = NilErr
    /\ last.in.Title = << >>
    /\ last.in.Description = <<"">>
    /\ last.in.Status = <<"DONE">>
    /\ last.in.DueDate = << >>
    /\ Returned.Description = ""
    /\ Returned.Title = "a"
    /\ Returned.DueDate = 3

\* the outcome of UpdateTask's checks for a stored task, read off the request
\* and the clock
C13_Expected(in) ==
    CASE in.Title = <<"">> -> [Type |-> "validation", Message |-> "title is required"]
      [] in.Title # <<"">>
           /\ in.Status \notin {<< >>, <<"PENDING">>, <<"IN_PROGRESS">>, <<"DONE">>} ->
           [Type |-> "validation", Message |-> "invalid status"]
      [] in.Title # <<"">>
           /\ in.Status \in {<< >>, <<"PENDING">>, <<"IN_PROGRESS">>, <<"DONE">>}
           /\ in.DueDate = <<0>> ->
           [Type |-> "validation", Message |-> "due_date is required"]
      [] in.Title # <<"">>
           /\ in.Status \in {<< >>, <<"PENDING">>, <<"IN_PROGRESS">>, <<"DONE">>}
           /\ in.DueDate # << >> /\ in.DueDate # <<0>> /\ in.DueDate[1] <= now ->
           [Type |-> "validation", Message |-> "due_date must be in the future"]
      [] OTHER -> NilErr

\* C13: UpdateTask fails with NotFound for an identifier that is no key of the
\* store, whatever the request; for a stored task it returns the first failure
\* in the order title, status, due date given, due date after the clock, with
\* the fixed messages, and nil when no supplied field fails; a field that is
\* not supplied is not looked at.
C13_UpdateTaskValidationOrder ==
    [][Calls("UpdateTask") =>
          IF last'.id \notin DOMAIN tasks
          THEN IsNotFound(last'.err) /\ tasks' = tasks
          ELSE last'.err = C13_Expected(last'.in)
      ]_vars

\* a request with a bad status and a zero due date, for a stored task: the
\* status is reported
C13_Witness ==
    /\ last.op = "UpdateTask"
    /\ last.id \in DOMAIN tasks
    /\ last.in.Title = <<"b">>
    /\ last.in.Status = <<"BOGUS">>
    /\ last.in.DueDate = <<0>>
    /\ last.err.Message = "invalid status"

\* a request without a due date goes through for a task whose due date is not
\* after the clock
C13_WitnessNotSupplied ==
    /\ last.op = "UpdateTask"
    /\ last.err = NilErr
    /\ last.in.DueDate = << >>
    /\ Returned.DueDate <= now

\* an invalid request for an unknown identifier
C13_WitnessUnknown ==
    /\ last.op = "UpdateTask"
    /\ last.id \notin DOMAIN tasks
    /\ DOMAIN tasks # {}
    /\ last.in.Title = <<"">>
    /\ IsNotFound(last.err)

\* the goroutines inside the locked section of a method: between the return of
\* Lock or RLock and the deferred Unlock or RUnlock
Inside == {p \in Procs : procs[p].pc \notin {"idle", "lock", "wait", "rlock"}}

WritersInside == {p \in Inside : procs[p].op \in {"Create", "Update", "Delete"}}

ReadersInside == {p \in Inside : procs[p].op \in {"GetByID", "ListAll"}}

\* C14: with goroutines calling the repository at the same time, at most one
\* Create, Update or Delete is inside the locked section, and while one is, no
\* GetByID, no ListAll and no other write is inside it.
C14_WriterExcludesAll ==
    /\ Cardinality(WritersInside) <= 1
    /\ WritersInside # {} => ReadersInside = {}

\* two reads are inside the locked section together
C14_Witness ==
    /\ Cardinality(ReadersInside) = 2
    /\ \E p, q \in ReadersInside : procs[p].op = "GetByID" /\ procs[q].op = "ListAll"

\* a write is inside the locked section while a read waits for it
C14_WitnessWriter ==
    /\ \E p \in WritersInside : procs[p].pc = "u2"
    /\ \E q \in Procs : procs[q].pc = "rlock"

\* C15: every call returns the result it has when the calls take effect one at
\* a time, each at one moment between its start and its return (the moment it
\* gets the lock): so a write that returned before a read began is seen by the
\* read, and a GetByID returns a record as a whole, as some Update or Create
\* stored it; and whenever no write is inside the locked section the store
\* holds what the calls made so far, in that order, leave.
C15_Linearizable ==
    /\ \A p \in Procs : procs[p].pc = "ret" => procs[p].res = lin.exp[p]
    /\ WritersInside = {} =>
          /\ DOMAIN tasks = DOMAIN lin.store
          /\ \A k \in DOMAIN tasks : heap[tasks[k]] = lin.store[k]

\* a GetByID returns the record of an Update, made by another goroutine, that
\* was waiting for the lock when the GetByID before it was reading
C15_Witness ==
    \E p, q \in Procs :
        /\ p # q
        /\ procs[p].pc = "ret"
        /\ procs[p].op = "GetByID"
        /\ procs[p].res.err = NilErr
        /\ \E t \in procs[p].res.vals : t.Title = "b" /\ t.Status = StatusDone
        /\ procs[q].pc = "wait"
        /\ procs[q].op = "Delete"

\* the page and the page size that a filter stands for
PageOf(f) == IF f.Page <= 0 THEN 1 ELSE f.Page

SizeOf(f) == IF f.PageSize <= 0 THEN 10 ELSE f.PageSize

C16_WitnessDefaults ==
    /\ last.op = "ListTasks"
    /\ last.in.Page <= 0
    /\ last.in.PageSize <= 0
    /\ Len(last.mid) = 3
    /\ last.out = last.mid

\* a page past the end of three tasks
C16_WitnessBeyond ==
    /\ last.op = "ListTasks"
    /\ last.in.Page = 3
    /\ last.in.PageSize = 2
    /\ Len(last.mid) = 3
    /\ last.out = << >>

\* the window rule of C16 for every page and page size whose product an int
\* holds
C16_PageWindowRepresentable ==
    (last.op = "ListTasks" /\ PageOf(last.in) * SizeOf(last.in) <= MaxInt) =>
        LET p == PageOf(last.in)
            s == SizeOf(last.in)
            n == Len(last.mid)
            lo == (p - 1) * s
            hi == IF p * s < n THEN p * s ELSE n
        IN /\ last.err = NilErr
           /\ last.out = IF lo >= n THEN << >>
                         ELSE [i \in 1..(hi - lo) |-> last.mid[lo + i]]

\* C17: ListTasks never fails: for every store and every pair of machine
\* integers page and pageSize, also those for which (page - 1) * pageSize wraps
\* around, it returns a sequence and no error, with no slice access out of range.
C17_NeverFails == last.op = "ListTasks" => last.err = NilErr

\* a call whose product (page - 1) * size wraps around to a negative start and
\* whose slice expression tasks[start:end] panics
C17_Witness ==
    /\ last.op = "ListTasks"
    /\ (PageOf(last.in) - 1) * SizeOf(last.in) > MaxInt
    /\ Wrap((PageOf(last.in) - 1) * SizeOf(last.in)) < 0
    /\ last.err = PanicErr

\* the same on an empty store
C17_WitnessEmptyStore ==
    /\ last.op = "ListTasks"
    /\ tasks = EmptyMap
    /\ last.err = PanicErr

\* every call whose start is negative after the wrap-around panics
C17_NegativeStartPanics ==
    (last.op = "ListTasks" /\ Wrap((PageOf(last.in) - 1) * SizeOf(last.in)) < 0) =>
        last.err = PanicErr

\* a call whose start is inside the slice and whose end wraps around to a
\* negative value panics as well
C17_WitnessEnd ==
    /\ last.op = "ListTasks"
    /\ Wrap((PageOf(last.in) - 1) * SizeOf(last.in)) \in 0..(Len(last.mid) - 1)
    /\ last.err = PanicErr

\* C18: the sequence that ListTasks returns is ordered by due date ascending:
\* for every two positions i < j of the result the due date at i is not after
\* the due date at j, whatever the order in which the tasks were created.
C18_SortedByDueDate ==
    last.op = "ListTasks" =>
        \A i, j \in DOMAIN last.out :
            i < j => ~After(last.out[i].DueDate, last.out[j].DueDate)

\* a result of two tasks with different due dates, the one due later created
\* first and yielded first by ListAll
C18_Witness ==
    /\ last.op = "ListTasks"
    /\ Len(last.out) = 2
    /\ Before(last.out[1].DueDate, last.out[2].DueDate)
    /\ last.out[2].ID = <<1>>
    /\ last.out[1].ID = <<2>>
    /\ last.all = <<last.out[2], last.out[1]>>

\* the position of the task t in the sequence that ListAll gave
PosInAll(t) == CHOOSE k \in DOMAIN last.all : last.all[k].ID = t.ID

\* C19 as stated: the sort in ListTasks is stable: tasks with equal due dates
\* appear in the result in the relative order in which ListAll yielded them.
C19_Stable ==
    last.op = "ListTasks" =>
        \A i, j \in DOMAIN last.out :
            (i < j /\ last.out[i].DueDate = last.out[j].DueDate) =>
                PosInAll(last.out[i]) < PosInAll(last.out[j])

\* C19, amended: the sort of ListTasks orders by due date and nothing else: the
\* sorted sequence holds exactly the tasks of ListAll that pass the filter, each
\* once, a task due earlier before a task due later, and tasks with equal due
\* dates in any relative order.
C19_SortedPermutation ==
    last.op = "ListTasks" =>
        LET passes(t) == last.in.Status = Absent \/ t.Status = last.in.Status[1]
        IN /\ \A i, j \in DOMAIN last.mid : i # j => last.mid[i] # last.mid[j]
           /\ {last.mid[i] : i \in DOMAIN last.mid}
                 = {last.all[k] : k \in {n \in DOMAIN last.all : passes(last.all[n])}}
           /\ \A i, j \in DOMAIN last.mid :
                 Before(last.mid[i].DueDate, last.mid[j].DueDate) => i < j

\* two tasks with the same due date returned in the order opposite to the one
\* of ListAll
C19_Witness ==
    /\ last.op = "ListTasks"
    /\ \E i, j \in DOMAIN last.out :
          /\ i < j
          /\ last.out[i].DueDate = last.out[j].DueDate
          /\ PosInAll(last.out[i]) > PosInAll(last.out[j])

\* the tasks of the slice that ListAll gave whose status is st
WithStatus(st) == {last.all[k] : k \in {n \in DOMAIN last.all : last.all[n].Status = st}}

\* the page of the call is large enough to hold the tasks of the set ts
HoldsAll(ts) == PageOf(last.in) = 1 /\ SizeOf(last.in) >= Cardinality(ts)

\* C20: ListTasks with a status filter returns only tasks whose status is the
\* filter value, and all the stored tasks of that status when the page is large
\* enough to hold them; a filter value that is none of PENDING, IN_PROGRESS and
\* DONE is not rejected and gives the empty result; without a filter no task is
\* left out.
C20_StatusFilter ==
    last.op = "ListTasks" =>
        LET got == {last.out[i] : i \in DOMAIN last.out}
            every == {last.all[k] : k \in DOMAIN last.all}
            stored == {ListAllCopy(heap[tasks[k]]) : k \in DOMAIN tasks}
        IN /\ every = stored
           /\ last.in.Status # Absent =>
                 /\ \A t \in got : t.Status = last.in.Status[1]
                 /\ HoldsAll(WithStatus(last.in.Status[1])) =>
                       /\ got = {t \in stored : t.Status = last.in.Status[1]}
                       /\ Len(last.out) = Cardinality(got)
                 /\ ~isValidStatus(last.in.Status[1]) =>
                       last.err = NilErr /\ last.out = << >>
           /\ last.in.Status = Absent =>
                 /\ Len(last.mid) = Len(last.all)
                 /\ HoldsAll(every) => got = stored /\ Len(last.out) = Cardinality(stored)

\* a store with tasks of two statuses, filtered by one: the result holds the two
\* DONE tasks and leaves the PENDING task out
C20_Witness ==
    /\ last.op = "ListTasks"
    /\ last.in.Status = Some(StatusDone)
    /\ Len(last.all) = 3
    /\ Len(last.out) = 2
    /\ \E k \in DOMAIN last.all : last.all[k].Status = StatusPending

\* a filter value that is no status, on a store that holds tasks
C20_WitnessUnknown ==
    /\ last.op = "ListTasks"
    /\ last.in.Status = Some(BadStatus)
    /\ Len(last.all) = 3
    /\ last.err = NilErr
    /\ last.out = << >>

\* no filter: all three tasks returned
C20_WitnessNoFilter ==
    /\ last.op = "ListTasks"
    /\ last.in.Status = Absent
    /\ Len(last.all) = 3
    /\ Len(last.out) = 3

\* the last call is a service call that returned an error (a panic returns
\* nothing)
ReturnedError == last.op \in ServiceOps /\ last.err # NilErr /\ last.err # PanicErr

\* C21: every error that a service operation returns is of exactly one of the
\* kinds Validation and NotFound; the handler answers a Validation error with
\* status 400 and a NotFound error with status 404, so that no error returned by
\* the service is answered with status 500 on any endpoint.
C21_ErrorsMapped ==
    ReturnedError =>
        /\ IsValidation(last.err) # IsNotFound(last.err)
        /\ IsValidation(last.err) => Respond(last.op, last.err) = 400
        /\ IsNotFound(last.err) => Respond(last.op, last.err) = 404
        /\ Respond(last.op, last.err) # 500

\* UpdateTask on an identifier that is not stored, answered with 404
C21_Witness ==
    /\ last.op = "UpdateTask"
    /\ IsNotFound(last.err)
    /\ Respond(last.op, last.err) = 404

\* a rejected CreateTask, answered with 400
C21_WitnessValidation ==
    /\ last.op = "CreateTask"
    /\ IsValidation(last.err)
    /\ Respond(last.op, last.err) = 400

\* the kinds of error that each operation returns
C21_KindsPerOperation ==
    ReturnedError =>
        /\ last.op = "CreateTask" => IsValidation(last.err)
        /\ last.op \in {"GetTask", "DeleteTask"} => IsNotFound(last.err)
        /\ last.op # "ListTasks"

\* goroutine p has made the call op, and the call has returned without error
Succeeded(p, op) == calls[p].op = op /\ calls[p].st = "done" /\ calls[p].err = NilErr

\* C22: UpdateTask is atomic with respect to other UpdateTask calls on the same
\* identifier: when two goroutines have each made an UpdateTask call on one
\* stored task, one with a new title only and one with a new status only, and
\* both calls have returned success, the stored task has the new title and the
\* new status.
C22_NoLostUpdate ==
    \A p, q \in Procs :
        ( /\ p # q
          /\ \A r \in Procs \ {p, q} : calls[r] = NoCall
          /\ calls[p].n = 1
          /\ calls[q].n = 1
          /\ Succeeded(p, "UpdateTask")
          /\ Succeeded(q, "UpdateTask")
          /\ calls[p].id = calls[q].id
          /\ calls[p].in = [NoUpdate EXCEPT !.Title = Some("b")]
          /\ calls[q].in = [NoUpdate EXCEPT !.Status = Some(StatusDone)] )
        => /\ calls[p].id \in DOMAIN tasks
           /\ Stored(calls[p].id).Title = "b"
           /\ Stored(calls[p].id).Status = StatusDone

\* both calls have returned success and the stored task has the new status and
\* the old title
C22_Witness ==
    \E p, q \in Procs :
        /\ p # q
        /\ Succeeded(p, "UpdateTask")
        /\ Succeeded(q, "UpdateTask")
        /\ calls[p].id = <<1>>
        /\ calls[q].id = <<1>>
        /\ calls[p].in = [NoUpdate EXCEPT !.Title = Some("b")]
        /\ calls[q].in = [NoUpdate EXCEPT !.Status = Some(StatusDone)]
        /\ calls[p].ret[1].Title = "b"
        /\ Stored(<<1>>).Title = "a"
        /\ Stored(<<1>>).Status = StatusDone

\* the same two calls, one after the other: both changes are stored
C22_WitnessBoth ==
    \E p, q \in Procs :
        /\ p # q
        /\ Succeeded(p, "UpdateTask")
        /\ Succeeded(q, "UpdateTask")
        /\ calls[p].in = [NoUpdate EXCEPT !.Title = Some("b")]
        /\ calls[q].in = [NoUpdate EXCEPT !.Status = Some(StatusDone)]
        /\ Stored(<<1>>).Title = "b"
        /\ Stored(<<1>>).Status = StatusDone

\* C23: whenever CreateTask, UpdateTask or DeleteTask returns an error the store
\* is as it was before the call: a rejected CreateTask stores no task, and an
\* UpdateTask whose title is valid and whose status or due date is rejected
\* stores neither the new title nor the new description.
C23_ErrorLeavesStore ==
    [][((Calls("CreateTask") \/ Calls("UpdateTask") \/ Calls("DeleteTask"))
            /\ last'.err # NilErr)
        => /\ tasks' = tasks
           /\ StoreView' = StoreView]_vars

\* an UpdateTask with a valid new title and description and a status that is
\* rejected has returned, and the stored task has its old title and description
C23_Witness ==
    /\ last.op = "UpdateTask"
    /\ last.id \in DOMAIN tasks
    /\ last.in.Title = Some("b")
    /\ last.in.Description = Some("")
    /\ last.in.Status = Some(BadStatus)
    /\ IsValidation(last.err)
    /\ Stored(last.id).Title = "a"
    /\ Stored(last.id).Description = "d"

\* a rejected CreateTask on a store that holds a task
C23_WitnessCreate ==
    /\ last.op = "CreateTask"
    /\ IsValidation(last.err)
    /\ Cardinality(DOMAIN tasks) = 1

\* a DeleteTask of an identifier that is not stored, on a store that holds a task
C23_WitnessDelete ==
    /\ last.op = "DeleteTask"
    /\ IsNotFound(last.err)
    /\ Cardinality(DOMAIN tasks) = 1

\* a DeleteTask of the identifier id has returned success
Deleted(id) == \E q \in Procs : Succeeded(q, "DeleteTask") /\ calls[q].id = id

\* C24: a deleted task never comes back: once Delete(id) has returned success no
\* later state of the store contains id, also when an UpdateTask(id) that fetched
\* the task before the delete finishes after it; that UpdateTask fails with
\* NotFound and writes nothing.
C24_DeletedStaysDeleted ==
    /\ [](\A id \in IDs : Deleted(id) => id \notin DOMAIN tasks)
    /\ [][\A p \in Procs :
             ( /\ calls[p].op = "UpdateTask"
               /\ calls[p].st = "store"
               /\ Deleted(calls[p].id)
               /\ calls'[p].st = "done" )
             => /\ IsNotFound(calls'[p].err)
                /\ tasks' = tasks
                /\ calls'[p].ret = << >>]_vars

\* an UpdateTask that had fetched and merged the task, and whose Update ran after
\* a DeleteTask of the same identifier had returned success, has returned
\* NotFound; the identifier is not in the store
C24_Witness ==
    \E p \in Procs :
        /\ calls[p].op = "UpdateTask"
        /\ calls[p].st = "done"
        /\ calls[p].task # << >>
        /\ IsNotFound(calls[p].err)
        /\ Deleted(calls[p].id)
        /\ calls[p].id \notin DOMAIN tasks

\* the UpdateTask is between its two repository calls when the delete has
\* returned
C24_WitnessPending ==
    \E p \in Procs :
        /\ calls[p].op = "UpdateTask"
        /\ calls[p].st = "store"
        /\ procs[p].pc = "lock"
        /\ Deleted(calls[p].id)

\* C25: in every state reached through CreateTask, GetTask, UpdateTask,
\* DeleteTask and ListTasks each record of the store is filed under its own
\* identifier (the record under key k has ID k), and no UpdateTask changes the
\* identifier of a task or moves a task to another key.
C25_FiledUnderOwnID ==
    /\ [](\A k \in DOMAIN tasks : Stored(k).ID = k)
    /\ [][Calls("UpdateTask") =>
             /\ DOMAIN tasks' = DOMAIN tasks
             /\ \A k \in DOMAIN tasks : Stored(k)'.ID = Stored(k).ID]_vars

\* a successful UpdateTask of the second task created, the first one deleted: the
\* record written is filed under the identifier of the call and carries it
C25_Witness ==
    /\ last.op = "UpdateTask"
    /\ last.err = NilErr
    /\ last.id = <<2>>
    /\ DOMAIN tasks = {<<2>>}
    /\ Stored(last.id).ID = last.id
    /\ Returned.ID = last.id

\* the same for concurrent callers of the service
C25_FiledUnderOwnIDConcurrent == \A k \in DOMAIN tasks : Stored(k).ID = k

\* concurrent callers: a store of two tasks, the first one written by UpdateTask
C25_WitnessConcurrent ==
    /\ DOMAIN tasks = {<<1>>, <<2>>}
    /\ \E p \in Procs : Succeeded(p, "UpdateTask") /\ calls[p].id = <<1>>
    /\ \E p \in Procs : Succeeded(p, "CreateTask")

\* the identifiers of the tasks of a slice, in order, and as a set
IdsOf(sq) == [i \in DOMAIN sq |-> sq[i].ID]

IdSet(sq) == {sq[i].ID : i \in DOMAIN sq}

\* the identifiers of the stored tasks that pass the status filter st
Matching(st) == {k \in DOMAIN tasks : st = Absent \/ Stored(k).Status = st[1]}

\* goroutine p has got the page pg
GotPage(p, pg) == Succeeded(p, "ListTasks") /\ calls[p].in.Page = pg

\* C26: for an unchanged store, one status filter and one page size s > 0, the
\* results of separate ListTasks calls for different pages are disjoint, the
\* pages together hold every stored task that passes the filter exactly once,
\* also when tasks have the same due date, and two calls for the same page
\* return the same sequence of identifiers.
C26_PagesPartition ==
    \A p, q \in Procs :
        (p # q /\ Succeeded(p, "ListTasks") /\ Succeeded(q, "ListTasks")) =>
            /\ calls[p].in.Page # calls[q].in.Page =>
                  IdSet(calls[p].ret) \cap IdSet(calls[q].ret) = {}
            /\ calls[p].in.Page = calls[q].in.Page =>
                  IdsOf(calls[p].ret) = IdsOf(calls[q].ret)
            /\ ( /\ calls[p].in.Page = 1
                 /\ calls[q].in.Page = 2
                 /\ Cardinality(Matching(pin.Status)) <= 2 * pin.PageSize )
               => /\ IdSet(calls[p].ret) \cup IdSet(calls[q].ret) = Matching(pin.Status)
                  /\ Len(calls[p].ret) + Len(calls[q].ret)
                        = Cardinality(Matching(pin.Status))

\* two tasks with the same due date and pages of one task: page 1 and page 2,
\* got by separate calls, hold the same task, and the other task is on neither
C26_Witness ==
    /\ pin.PageSize = 1
    /\ pin.Status = Absent
    /\ Cardinality(DOMAIN tasks) = 2
    /\ \E p, q \in Procs :
          /\ GotPage(p, 1)
          /\ GotPage(q, 2)
          /\ Len(calls[p].ret) = 1
          /\ calls[p].ret = calls[q].ret

\* two calls for the same page return different sequences
C26_WitnessSamePage ==
    \E p, q \in Procs :
        /\ GotPage(p, 1)
        /\ GotPage(q, 1)
        /\ IdSet(calls[p].ret) = IdSet(calls[q].ret)
        /\ IdsOf(calls[p].ret) # IdsOf(calls[q].ret)

\* when no two stored tasks have the same due date the pages are as C26 says
C26_PartitionWithoutTies ==
    (\A j, k \in DOMAIN tasks : j # k => Stored(j).DueDate # Stored(k).DueDate)
        => C26_PagesPartition

\* the records under the identifiers other than id are as they were
OthersKept(id) ==
    \A k \in DOMAIN tasks : k # id => k \in DOMAIN tasks' /\ Stored(k)' = Stored(k)

\* the frame of a step of each operation but Create
FrameOfStep ==
    /\ last'.op \in {"Update", "Delete", "UpdateTask", "DeleteTask"} => OthersKept(last'.id)
    /\ last'.op = "CreateTask" => OthersKept(EmptyID)
    /\ last'.op \in {"GetByID", "ListAll", "GetTask", "ListTasks"} =>
          tasks' = tasks /\ StoreView' = StoreView

\* C27, the steps: Update, Delete, UpdateTask and DeleteTask on id leave every
\* record stored under another identifier as it was, Create and CreateTask leave
\* every record that exists as it was, and GetByID, ListAll, GetTask and
\* ListTasks leave the whole store as it was.
C27_FrameSteps ==
    [][FrameOfStep /\ (last'.op = "Create" => OthersKept(EmptyID))]_vars

\* C27, the states it allows: while only the repository and the service write,
\* the record under an identifier is what the last Create or Update of that
\* identifier stored, for the identifiers that Create filed and Update wrote.
C27_Frame == \A k \in DOMAIN tasks \cap DOMAIN snap : Stored(k) = snap[k].upd

\* the operations other than Create change only the entry they name, as long as
\* no struct has been passed to Create twice
C27_FrameButCreate == [][FrameOfStep]_vars

\* an UpdateTask of one identifier has written the record of another one
C27_WitnessUpdateTask ==
    /\ last.op = "UpdateTask"
    /\ last.err = NilErr
    /\ Cardinality(DOMAIN tasks) = 2
    /\ Returned.ID # last.id
    /\ Stored(Returned.ID) = Returned

\* a Create has changed the record stored under another identifier
C27_Witness ==
    /\ last.op = "Create"
    /\ \E k \in DOMAIN tasks \cap DOMAIN snap :
          /\ k # last.id
          /\ snap[k].upd.ID = k
          /\ Stored(k).ID = last.id

\* goroutine p is in a service call that has not returned
InCall(p) == calls[p].st \notin {"idle", "done"}

\* goroutine p holds r.mu or is the goroutine inside Lock
HasLock(p) == mu.w = p \/ p \in mu.r

\* C28: every repository operation gives the lock back on each of its return
\* paths, the NotFound paths included, and no service operation holds the lock
\* across two repository calls; so with concurrent callers and fair scheduling
\* no deadlock is reachable and every started operation returns in the end.
C28_EveryCallReturns ==
    /\ [](\A p \in Procs : procs[p].pc \in {"idle", "lock", "rlock"} => ~HasLock(p))
    /\ []((\E p \in Procs : InCall(p)) => \E p \in Procs : ENABLED TaskStep(p))
    /\ \A p \in Procs : InCall(p) ~> (calls[p].st = "done")

\* a repository call of one goroutine has returned NotFound and another
\* goroutine holds the write lock after it
C28_Witness ==
    \E p, q \in Procs :
        /\ calls[p].st = "done"
        /\ IsNotFound(calls[p].err)
        /\ calls[p].op \in {"GetTask", "DeleteTask"}
        /\ InCall(q)
        /\ mu.w = q
        /\ mu.locked

\* an UpdateTask between its two repository calls, holding no lock, while another
\* goroutine holds the write lock
C28_WitnessBetween ==
    \E p, q \in Procs :
        /\ calls[p].op = "UpdateTask"
        /\ calls[p].st = "store"
        /\ procs[p].pc = "lock"
        /\ mu.w = q
        /\ mu.locked

====
